---- MODULE Spec2Model ----
(***************************************************************************)
(* Model of rust-oracle's statement engine (src/src/statement.rs) and of   *)
(* its value cell (src/src/sql_value.rs).                                  *)
(*                                                                         *)
(* Spec      one Statement from prepare to drop: execute, fetch, close,    *)
(*           with the ODPI-C driver as ghost state (reference counts,      *)
(*           attached buffers, cursor, the calls of the last operation).   *)
(* SpecBind  one Statement bound and read by every position and name.      *)
(* SpecExec  one Statement executed with positional and named parameters.  *)
(* SpecCell  one SqlValue with every Native Encoding, read by every typed  *)
(*           getter.                                                       *)
(* SpecSet   one SqlValue written by every typed setter and read back.     *)
(* SpecRow   the rows of a query read by column position and name.         *)
(* SpecVar   cells allocated, cloned and dropped over the driver's arena.  *)
(* SpecCols  queries executed over the Oracle types of their columns.      *)
(* SpecMark  plain SQL with a repeated bind marker, bound and read.        *)
(* A driver call can fail: failAt is the call of an operation that does.   *)
(***************************************************************************)
EXTENDS Integers, Sequences, FiniteSets, TLC

\* ---------------------------------------------------------------- bounds
MaxBinds == 3
MaxRows == 3
MaxCols == 2
MaxVars == 4
MaxParams == 2
\* DPI_DEFAULT_FETCH_ARRAY_SIZE is 100 in the driver header; scaled down
DPI_DEFAULT_FETCH_ARRAY_SIZE == 2

\* ------------------------------------------------------- generic helpers
Range(s) == {s[i] : i \in 1..Len(s)}

SeqsUpTo(S, n) == UNION {[1..k -> S] : k \in 0..n}

RECURSIVE Unique(_)
\* first occurrences of the elements of s, in order
Unique(s) ==
    IF s = <<>> THEN <<>>
    ELSE LET r == Unique(SubSeq(s, 1, Len(s) - 1))
             x == s[Len(s)]
         IN IF x \in Range(r) THEN r ELSE Append(r, x)

\* Iterator::position: 0-based index of the first element equal to x, or -1
Position(s, x) ==
    IF \E i \in 1..Len(s) : s[i] = x
    THEN (CHOOSE i \in 1..Len(s) : s[i] = x /\ \A j \in 1..(i - 1) : s[j] # x) - 1
    ELSE -1

\* --------------------------------------------------------------- strings
\* a string is a sequence of characters
to_uppercase_char(c) ==
    CASE c = "a" -> "A"
      [] c = "b" -> "B"
      [] OTHER -> c

to_lowercase_char(c) ==
    CASE c = "A" -> "a"
      [] c = "B" -> "b"
      [] OTHER -> c

\* str::to_uppercase
to_uppercase(s) == [i \in 1..Len(s) |-> to_uppercase_char(s[i])]

\* str::eq_ignore_ascii_case
eq_ignore_ascii_case(s, t) ==
    /\ Len(s) = Len(t)
    /\ \A i \in 1..Len(s) : to_lowercase_char(s[i]) = to_lowercase_char(t[i])

\* the spellings callers pass as bind names
Spellings == {<<"a">>, <<"A">>, <<"B">>, <<"1">>}

\* the bind markers as written in the statement text
Markers == {<<"a">>, <<"b">>}

\* --------------------------------------------------------------- numbers
\* A number is (-1)^neg * m * 2^e with m odd (or zero), so that the 64-bit
\* integers and the floats at the edges of their ranges are exact values.
RECURSIVE BitLen(_)
BitLen(m) == IF m = 0 THEN 0 ELSE 1 + BitLen(m \div 2)

RECURSIVE Pow2(_)
Pow2(k) == IF k = 0 THEN 1 ELSE 2 * Pow2(k - 1)

RECURSIVE Canon(_, _, _)
Canon(neg, m, e) ==
    IF m = 0 THEN [neg |-> FALSE, m |-> 0, e |-> 0]
    ELSE IF m % 2 = 0 THEN Canon(neg, m \div 2, e + 1)
    ELSE [neg |-> neg, m |-> m, e |-> e]

\* the number of a model integer
NumOf(i) == IF i < 0 THEN Canon(TRUE, -i, 0) ELSE Canon(FALSE, i, 0)

IsInteger(n) == n.e >= 0

\* |n| <= 2^k and |n| < 2^k
MagLeqPow2(n, k) == n.m = 0 \/ BitLen(n.m) + n.e <= k \/ (n.m = 1 /\ n.e = k)
MagLtPow2(n, k) == n.m = 0 \/ BitLen(n.m) + n.e <= k

\* rounding toward zero (the integer part)
Trunc(n) == IF n.e >= 0 THEN n ELSE
    IF -n.e >= BitLen(n.m) THEN Canon(FALSE, 0, 0)
    ELSE Canon(n.neg, n.m \div Pow2(-n.e), 0)

\* the integer types of the typed getters
IntTypes == {"i8", "i16", "i32", "i64", "u8", "u16", "u32", "u64"}

Signed(T) == T \in {"i8", "i16", "i32", "i64"}

Bits(T) ==
    CASE T \in {"i8", "u8"} -> 8
      [] T \in {"i16", "u16"} -> 16
      [] T \in {"i32", "u32"} -> 32
      [] T \in {"i64", "u64"} -> 64

\* max_value() is 2^MaxPow(T) - 1, min_value() is -2^(Bits(T) - 1) or 0
MaxPow(T) == IF Signed(T) THEN Bits(T) - 1 ELSE Bits(T)

\* n <= 2^k - 1 for a positive n that is no integer
FracLeqMax(n, k) ==
    LET floor == IF -n.e >= BitLen(n.m) THEN 0 ELSE n.m \div Pow2(-n.e)
    IN k >= 31 \/ floor + 2 <= Pow2(k)

\* min_value() <= n <= max_value(), exactly
InRange(T, n) ==
    IF n.m = 0 THEN TRUE
    ELSE IF n.neg THEN Signed(T) /\ MagLeqPow2(n, Bits(T) - 1)
    ELSE IF IsInteger(n) THEN MagLtPow2(n, MaxPow(T))
    ELSE FracLeqMax(n, MaxPow(T))

\* the mantissa widths of f32 and f64
MantissaBits(F) == IF F = "f32" THEN 24 ELSE 53

\* `$dest_type::max_value() as $src_type`: 2^k - 1 is exact in a float of p
\* mantissa bits when k <= p, and rounds to nearest, that is up to 2^k, else
max_value_as_float(T, F) ==
    [pow |-> MaxPow(T), minus1 |-> MaxPow(T) <= MantissaBits(F)]

\* `$dest_type::min_value() as $src_type <= src_val`: the minimum is zero or
\* a power of two and exact in every float
min_value_leq(T, n) ==
    IF ~n.neg THEN TRUE
    ELSE IF Signed(T) THEN MagLeqPow2(n, Bits(T) - 1)
    ELSE n.m = 0

\* src_val <= bound, for a bound 2^pow or 2^pow - 1
leq_bound(n, bound) ==
    IF n.neg \/ n.m = 0 THEN TRUE
    ELSE IF ~bound.minus1 THEN MagLeqPow2(n, bound.pow)
    ELSE IF IsInteger(n) THEN MagLtPow2(n, bound.pow)
    ELSE FracLeqMax(n, bound.pow)

\* payload of one element of a driver buffer (dpiData): an integer or a
\* float (k = "int", "flt", "nan", "inf" with the number n), or bytes (s);
\* k = "big" is the u64 2^64 + n of a negative n, which no number above spells
Payload(k, n, s) == [k |-> k, n |-> n, s |-> s]

NoPayload == Payload("none", NumOf(0), <<>>)

IntPayload(i) == Payload("int", NumOf(i), <<>>)

StrPayload(s) == Payload("str", NumOf(0), s)

\* the outcome of a conversion: res is "Ok" or the Error variant
Conv(res, val, to) == [res |-> res, val |-> val, to |-> to]

\* From<TryFromIntError> and From<ParseIntError> for Error
from_int_error(kind, T) ==
    IF kind = "Overflow" THEN Conv("Overflow", NoPayload, T)
    ELSE Conv("ParseError", NoPayload, T)

\* i64/u64 -> T by TryInto
try_into(p, T) ==
    IF p.k = "big"
    THEN IF T = "u64" THEN Conv("Ok", p, T) ELSE from_int_error("Overflow", T)
    ELSE IF InRange(T, p.n) THEN Conv("Ok", p, T) ELSE from_int_error("Overflow", T)

\* `as i64` of an integer: a u64 from 2^63 on wraps to the number 2^64 less
wrap_i64(p) ==
    IF p.k = "big" THEN Payload("int", p.n, <<>>)
    ELSE IF ~p.n.neg /\ ~MagLtPow2(p.n, 63)
         THEN Payload("int", Canon(TRUE, (Pow2(63 - p.n.e) - p.n.m) + Pow2(63 - p.n.e),
                                   p.n.e), <<>>)
    ELSE p

\* `as u64` of an integer: a negative number wraps to the number 2^64 more
wrap_u64(p) ==
    IF ~p.n.neg THEN p
    ELSE IF p.n.e >= 34
         THEN Payload("int", Canon(FALSE, Pow2(64 - p.n.e) - p.n.m, p.n.e), <<>>)
    ELSE Payload("big", p.n, <<>>)

\* `as i64` and `as u64` of a float: the integer part, and "UBCast" for a
\* float the destination cannot hold
flt_as_int(p, T) ==
    IF p.k = "flt" /\ InRange(T, Trunc(p.n)) THEN Payload("int", Trunc(p.n), <<>>)
    ELSE Payload("UBCast", p.n, <<>>)

\* flt_to_int!: "UBCast" is `src_val as $dest_type` of a value the
\* destination cannot hold
flt_to_int(p, F, T) ==
    IF p.k \in {"nan", "inf"} THEN Conv("Overflow", p, T)
    ELSE IF min_value_leq(T, p.n) /\ leq_bound(p.n, max_value_as_float(T, F))
         THEN IF InRange(T, Trunc(p.n))
              THEN Conv("Ok", Payload("int", Trunc(p.n), <<>>), T)
              ELSE Conv("UBCast", p, T)
    ELSE Conv("Overflow", p, T)

Digits == <<"0", "1", "2", "3", "4", "5", "6", "7", "8", "9">>

IsDigit(c) == c \in Range(Digits)

DigitVal(c) == Position(Digits, c)

RECURSIVE parse_digits(_, _, _, _)
\* the checked multiply-and-add loop of from_str_radix
parse_digits(s, acc, neg, T) ==
    IF s = <<>> THEN Conv("Ok", IntPayload(acc), T)
    ELSE IF ~IsDigit(Head(s)) THEN from_int_error("InvalidDigit", T)
    ELSE LET next == IF neg THEN acc * 10 - DigitVal(Head(s))
                     ELSE acc * 10 + DigitVal(Head(s))
         IN IF ~InRange(T, NumOf(next)) THEN from_int_error("Overflow", T)
            ELSE parse_digits(Tail(s), next, neg, T)

\* str::parse::<T>() for the integer types
parse_int(s, T) ==
    IF s = <<>> THEN from_int_error("Empty", T)
    ELSE IF Head(s) = "+" /\ Len(s) > 1 THEN parse_digits(Tail(s), 0, FALSE, T)
    ELSE IF Head(s) = "-" /\ Len(s) > 1 /\ Signed(T) THEN parse_digits(Tail(s), 0, TRUE, T)
    ELSE IF Head(s) \in {"+", "-"} THEN from_int_error("InvalidDigit", T)
    ELSE parse_digits(s, 0, FALSE, T)

RECURSIVE to_string(_)
\* ToString of a non-negative integer
to_string(i) ==
    IF i < 10 THEN <<Digits[i + 1]>> ELSE Append(to_string(i \div 10), Digits[(i % 10) + 1])

\* ToString of the integer and float types, for the numbers below 2^31 in
\* size that are whole or end in one half
display(p) ==
    LET mag == IF p.n.e >= 0 THEN p.n.m * Pow2(p.n.e) ELSE p.n.m \div 2
        digits == to_string(mag) \o (IF p.n.e < 0 THEN <<".", "5">> ELSE <<>>)
    IN IF p.n.neg THEN <<"-">> \o digits ELSE digits

\* ---------------------------------------------------------- Type Catalog
\* OracleType: t is the variant, p and s its parameters
OraType(t, p, s) == [t |-> t, p |-> p, s |-> s]

\* Option<OracleType>::None
NoOraType == OraType("None", 0, 0)

VarParam(num, native, size, objtype) ==
    [num |-> num, native |-> native, size |-> size, objtype |-> objtype]

\* OracleType::var_create_param: (driver type code, NativeType, size); the
\* NativeType of an object type carries the ObjectType
var_create_param(oratype) ==
    CASE oratype.t = "Varchar2" -> VarParam("VARCHAR", "Char", oratype.p, 0)
      [] oratype.t = "Raw" -> VarParam("RAW", "Raw", oratype.p, 0)
      [] oratype.t = "Number" -> VarParam("NUMBER", "Number", 0, 0)
      [] oratype.t = "Int64" -> VarParam("NATIVE_INT", "Int64", 0, 0)
      [] oratype.t = "UInt64" -> VarParam("NATIVE_UINT", "UInt64", 0, 0)
      [] oratype.t = "BinaryFloat" -> VarParam("NATIVE_FLOAT", "Float", 0, 0)
      [] oratype.t = "BinaryDouble" -> VarParam("NATIVE_DOUBLE", "Double", 0, 0)
      [] oratype.t = "Timestamp" -> VarParam("TIMESTAMP", "Timestamp", 0, 0)
      [] oratype.t = "IntervalDS" -> VarParam("INTERVAL_DS", "IntervalDS", 0, 0)
      [] oratype.t = "IntervalYM" -> VarParam("INTERVAL_YM", "IntervalYM", 0, 0)
      [] oratype.t = "CLOB" -> VarParam("CLOB", "CLOB", 0, 0)
      [] oratype.t = "BLOB" -> VarParam("BLOB", "BLOB", 0, 0)
      [] oratype.t = "Boolean" -> VarParam("BOOLEAN", "Boolean", 0, 0)
      [] oratype.t = "Object" ->
           VarParam("OBJECT", IF oratype.s = 1 THEN "Collection" ELSE "Object", 0, oratype.p)

\* ------------------------------------------------------------ the driver
\* a dpiVar slot of the driver's arena; refs = 0 means the slot is free
FreeVar == [refs |-> 0, isNull |-> TRUE, val |-> NoPayload, arr |-> 0]

\* one call into the driver: H.calls grows by the call, and the call fails
\* when it is the H.failAt-th call of the running operation
Call(H, f, pos, name) ==
    [H EXCEPT !.calls = @ + 1,
              !.log = Append(@, [f |-> f, pos |-> pos, name |-> name])]

\* a release is logged and cannot fail
Note(H, f, pos) ==
    [H EXCEPT !.log = Append(@, [f |-> f, pos |-> pos, name |-> <<>>])]

Fails(H) == H.calls = H.failAt

\* dpiConn_newVar picks a free slot of the arena
FreshVar(H) == CHOOSE id \in 1..MaxVars :
    /\ H.vars[id].refs = 0
    /\ \A j \in 1..(id - 1) : H.vars[j].refs # 0

\* dpiVar_release
VarRelease(H, id) ==
    LET H1 == Note(H, "dpiVar_release", id)
    IN IF H1.vars[id].refs = 1
       THEN [H1 EXCEPT !.vars[id] = FreeVar]
       ELSE [H1 EXCEPT !.vars[id].refs = @ - 1]

\* ----------------------------------------------------------------- cells
\* SqlValue::new
NewSqlValue ==
    [handle |-> 0, data |-> 0, native_type |-> "Int64", oratype |-> NoOraType,
     array_size |-> 0, buffer_row_index |-> 0, keep_bytes |-> <<>>, keep_dpiobj |-> 0]

\* the result of a cell operation: the cell, the driver, what it returned
CellRes(cell, H, res) == [cell |-> cell, H |-> H, res |-> res]

\* handle_is_reusable without the comparison of the array sizes
handle_is_reusable_any_size(cell, oratype, array_size) ==
    IF cell.handle = 0 THEN FALSE
    ELSE IF cell.oratype = NoOraType THEN FALSE
    ELSE LET cur == var_create_param(cell.oratype)
             new == var_create_param(oratype)
         IN IF cur.num # new.num THEN FALSE
            ELSE IF cur.num \in {"VARCHAR", "NVARCHAR", "CHAR", "NCHAR", "RAW"}
                 THEN cur.size >= new.size
            ELSE IF cur.num = "OBJECT"
                 THEN cur.native = new.native /\ cur.objtype = new.objtype
            ELSE TRUE

\* SqlValue::handle_is_reusable
handle_is_reusable(cell, oratype, array_size) ==
    IF cell.handle = 0 THEN FALSE
    ELSE IF cell.array_size # array_size THEN FALSE
    ELSE IF cell.oratype = NoOraType THEN FALSE
    ELSE LET cur == var_create_param(cell.oratype)
             new == var_create_param(oratype)
         IN IF cur.num # new.num THEN FALSE
            ELSE IF cur.num \in {"VARCHAR", "NVARCHAR", "CHAR", "NCHAR", "RAW"}
                 THEN cur.size >= new.size
            ELSE IF cur.num = "OBJECT"
                 THEN cur.native = new.native /\ cur.objtype = new.objtype
            ELSE TRUE

\* SqlValue::init_handle asking the driver for a buffer of one element
init_handle_one_row(cell, H, oratype, array_size) ==
    IF handle_is_reusable(cell, oratype, array_size)
    THEN CellRes(cell, H, "false")
    ELSE LET H1 == IF cell.handle # 0 THEN VarRelease(H, cell.handle) ELSE H
             c1 == [cell EXCEPT !.handle = 0]
             H2 == Call(H1, "dpiConn_newVar", 0, <<>>)
             id == FreshVar(H2)
         IN IF Fails(H2)
            THEN CellRes(c1, H2, "DpiError")
            ELSE CellRes(
                   [c1 EXCEPT !.handle = id, !.data = id,
                              !.native_type = var_create_param(oratype).native,
                              !.oratype = oratype, !.array_size = 1],
                   [H2 EXCEPT !.vars[id] = [refs |-> 1, isNull |-> TRUE,
                                            val |-> NoPayload, arr |-> 1]],
                   "true")

\* init_handle asking the driver for a buffer one element short
init_handle_short(cell, H, oratype, array_size) ==
    IF handle_is_reusable(cell, oratype, array_size)
    THEN CellRes(cell, H, "false")
    ELSE LET H1 == IF cell.handle # 0 THEN VarRelease(H, cell.handle) ELSE H
             c1 == [cell EXCEPT !.handle = 0]
             H2 == Call(H1, "dpiConn_newVar", 0, <<>>)
             id == FreshVar(H2)
         IN IF Fails(H2)
            THEN CellRes(c1, H2, "DpiError")
            ELSE CellRes(
                   [c1 EXCEPT !.handle = id, !.data = id,
                              !.native_type = var_create_param(oratype).native,
                              !.oratype = oratype, !.array_size = array_size],
                   [H2 EXCEPT !.vars[id] = [refs |-> 1, isNull |-> TRUE,
                                            val |-> NoPayload, arr |-> array_size - 1]],
                   "true")

\* SqlValue::init_handle; res is "true", "false" or "DpiError"
init_handle(cell, H, oratype, array_size) ==
    IF handle_is_reusable(cell, oratype, array_size)
    THEN CellRes(cell, H, "false")
    ELSE LET H1 == IF cell.handle # 0 THEN VarRelease(H, cell.handle) ELSE H
             c1 == [cell EXCEPT !.handle = 0]
             H2 == Call(H1, "dpiConn_newVar", 0, <<>>)
             id == FreshVar(H2)
         IN IF Fails(H2)
            THEN CellRes(c1, H2, "DpiError")
            ELSE CellRes(
                   [c1 EXCEPT !.handle = id, !.data = id,
                              !.native_type = var_create_param(oratype).native,
                              !.oratype = oratype, !.array_size = array_size],
                   [H2 EXCEPT !.vars[id] = [refs |-> 1, isNull |-> TRUE,
                                            val |-> NoPayload, arr |-> array_size]],
                   "true")

\* SqlValue::data: the dpiData the cell reads and writes exists
Deref(cell, H) ==
    /\ cell.data # 0
    /\ H.vars[cell.data].refs > 0
    /\ cell.buffer_row_index < H.vars[cell.data].arr

\* the result of a getter: res is "Ok", an Error variant, or "UB" when the
\* getter read through a null or dangling data pointer
GetRes(res, val, from, to, read, H) ==
    [res |-> res, val |-> val, from |-> from, to |-> to, read |-> read, H |-> H]

\* invalid_conversion_to_rust_type behind a null check
null_before_conversion(cell, H, to) ==
    IF cell.data # 0 /\ H.vars[cell.data].isNull
    THEN GetRes("NullValue", NoPayload, cell.oratype, to, TRUE, H)
    ELSE IF cell.oratype # NoOraType
         THEN GetRes("InvalidTypeConversion", NoPayload, cell.oratype, to, FALSE, H)
    ELSE GetRes("UninitializedBindValue", NoPayload, NoOraType, to, FALSE, H)

invalid_conversion_to_rust_type(cell, H, to) ==
    IF cell.oratype # NoOraType
    THEN GetRes("InvalidTypeConversion", NoPayload, cell.oratype, to, FALSE, H)
    ELSE GetRes("UninitializedBindValue", NoPayload, NoOraType, to, FALSE, H)

\* a get_TYPE_unchecked without its check_not_null()?
get_unguarded(cell, H, to) ==
    IF ~Deref(cell, H) THEN GetRes("UB", NoPayload, cell.oratype, to, TRUE, H)
    ELSE GetRes("Ok", H.vars[cell.data].val, cell.oratype, to, TRUE, H)

\* check_not_null()? followed by the read of the payload, as every
\* get_TYPE_unchecked does
get_unchecked(cell, H, to) ==
    IF ~Deref(cell, H) THEN GetRes("UB", NoPayload, cell.oratype, to, TRUE, H)
    ELSE IF H.vars[cell.data].isNull
         THEN GetRes("NullValue", NoPayload, cell.oratype, to, TRUE, H)
    ELSE GetRes("Ok", H.vars[cell.data].val, cell.oratype, to, TRUE, H)

\* READ_CHAR_SIZE and READ_SIZE, 8192 in the source, scaled down
READ_CHAR_SIZE == 2

RECURSIVE lob_read_loop(_, _, _, _, _, _)
\* the read loop: the driver writes at most bufsiz (the read_len handed in)
\* bytes of a chunk
lob_read_loop(content, offset, total, bufsiz, H, result) ==
    IF offset > total THEN [res |-> "Ok", s |-> result, H |-> H]
    ELSE LET H1 == Call(H, "dpiLob_readBytes", offset, <<>>)
             end == IF offset + READ_CHAR_SIZE - 1 < Len(content)
                    THEN offset + READ_CHAR_SIZE - 1 ELSE Len(content)
             last == IF end - offset + 1 > bufsiz THEN offset + bufsiz - 1 ELSE end
         IN IF Fails(H1) THEN [res |-> "DpiError", s |-> result, H |-> H1]
            ELSE lob_read_loop(content, offset + READ_CHAR_SIZE, total, bufsiz, H1,
                               result \o SubSeq(content, offset, last))

\* the sizes asked of the driver before the loop; no result is checked, and
\* a failed call leaves its output 0 as initialized: dpiLob_getSize, and of a
\* CLOB dpiLob_getBufferSize for the capacity and for the read buffer
lob_sizes(cell, H, content) ==
    LET H1 == Call(H, "dpiLob_getSize", 0, <<>>)
        H2 == Call(H1, "dpiLob_getBufferSize", Len(content), <<>>)
        H3 == Call(H2, "dpiLob_getBufferSize", READ_CHAR_SIZE, <<>>)
        total == IF Fails(H1) THEN 0 ELSE Len(content)
    IN IF cell.native_type = "CLOB"
       THEN [total |-> total, bufsiz |-> IF Fails(H3) THEN 0 ELSE READ_CHAR_SIZE, H |-> H3]
       ELSE [total |-> total, bufsiz |-> READ_CHAR_SIZE, H |-> H1]

lob_read(g, z, cell, to) ==
    IF g.res # "Ok" THEN g
    ELSE \* the loop
         LET r == lob_read_loop(g.val.s, 1, z.total, z.bufsiz, z.H, <<>>)
         IN GetRes(r.res, StrPayload(r.s), cell.oratype, to, TRUE, r.H)

\* get_clob_as_string_unchecked and get_blob_as_hex_string_unchecked
get_lob_as_string_unchecked(cell, H, to) ==
    lob_read(get_unchecked(cell, H, to),
             lob_sizes(cell, H, get_unchecked(cell, H, to).val.s), cell, to)

get_string(cell, H, to) ==
    IF cell.native_type \in {"Char", "Number"} THEN get_unchecked(cell, H, to)
    ELSE IF cell.native_type = "CLOB" THEN get_lob_as_string_unchecked(cell, H, to)
    ELSE invalid_conversion_to_rust_type(cell, H, "String")

\* a conversion applied to what a get_TYPE_unchecked returned
Then(g, c) == IF g.res # "Ok" THEN g ELSE [g EXCEPT !.res = c.res, !.val = c.val]

\* the host value of a getter that is no integer getter: the payload as `to`
\* (of a number whose digits the model does not spell: the number)
rendered(p, to) == Conv("Ok", Payload(to, p.n, p.s), to)

\* define_fn_as_int!, as_i64 and as_u64
as_int(cell, H, T) ==
    LET nt == cell.native_type
        g == get_unchecked(cell, H, T)
        gs == get_string(cell, H, T)
    IN IF nt = "Int64" /\ T = "i64" THEN g
       ELSE IF nt = "UInt64" /\ T = "u64" THEN g
       ELSE IF nt \in {"Int64", "UInt64"} THEN Then(g, try_into(g.val, T))
       ELSE IF nt = "Float" THEN Then(g, flt_to_int(g.val, "f32", T))
       ELSE IF nt = "Double" THEN Then(g, flt_to_int(g.val, "f64", T))
       ELSE IF nt \in {"Char", "CLOB", "Number"} THEN Then(gs, parse_int(gs.val.s, T))
       ELSE invalid_conversion_to_rust_type(cell, H, T)

\* the getters that are no integer getters, and the name each gives its target
OtherGetters ==
    {"as_f32", "as_f64", "as_string", "as_bytes", "as_timestamp", "as_interval_ds",
     "as_interval_ym", "as_collection", "as_object", "as_bool"}

TargetName(getter) ==
    CASE getter = "as_f32" -> "f32"
      [] getter = "as_f64" -> "f64"
      [] getter = "as_string" -> "string"
      [] getter = "as_bytes" -> "raw"
      [] getter = "as_timestamp" -> "Timestamp"
      [] getter = "as_interval_ds" -> "IntervalDS"
      [] getter = "as_interval_ym" -> "IntervalYM"
      [] getter = "as_collection" -> "Collection"
      [] getter = "as_object" -> "Object"
      [] getter = "as_bool" -> "bool"

\* the arms of each getter's match on native_type that read the value
Arms(getter) ==
    CASE getter \in {"as_f32", "as_f64"} ->
           {"Int64", "UInt64", "Float", "Double", "Char", "CLOB", "Number"}
      [] getter = "as_string" ->
           {"Int64", "UInt64", "Float", "Double", "Char", "Number", "Raw", "Timestamp",
            "IntervalDS", "IntervalYM", "CLOB", "BLOB", "Object", "Collection"}
      [] getter = "as_bytes" -> {"Raw", "Char", "CLOB"}
      [] getter = "as_timestamp" -> {"Timestamp", "Char", "CLOB"}
      [] getter = "as_interval_ds" -> {"IntervalDS", "Char", "CLOB"}
      [] getter = "as_interval_ym" -> {"IntervalYM", "Char", "CLOB"}
      [] getter = "as_collection" -> {"Collection"}
      [] getter = "as_object" -> {"Object"}
      [] getter = "as_bool" -> {"Boolean"}

\* `as f32` and `as f64` of a number: rounded to the mantissa, to nearest,
\* ties to even
round_to_float(n, F) ==
    LET drop == BitLen(n.m) - MantissaBits(F)
        q == n.m \div Pow2(drop)
        r == n.m % Pow2(drop)
        up == r > Pow2(drop - 1) \/ (r = Pow2(drop - 1) /\ q % 2 = 1)
    IN IF drop <= 0 THEN n ELSE Canon(n.neg, IF up THEN q + 1 ELSE q, n.e + drop)

\* a u64 2^64 + n is as near to 2^64 as the negative numbers of the model
\* are to zero, and rounds to 2^64
as_float(p, F) ==
    IF p.k = "big" /\ BitLen(p.n.m) + p.n.e <= 63 - MantissaBits(F)
    THEN Conv("Ok", Payload("flt", Canon(FALSE, 1, 64), <<>>), F)
    ELSE Conv("Ok", Payload(IF p.k \in {"int", "flt"} THEN "flt" ELSE p.k,
                            round_to_float(p.n, F), <<>>), F)

\* str::parse for f32 and f64, parse_str_into_raw, and FromStr of Timestamp
\* and the intervals, none of which the texts of the model spell
from_str(s, to) ==
    LET half == Len(s) > 2 /\ SubSeq(s, Len(s) - 1, Len(s)) = <<".", "5">>
        n == parse_int(IF half THEN SubSeq(s, 1, Len(s) - 2) ELSE s, "i64")
        v == IF half THEN Payload("flt", Canon(Head(s) = "-", 2 * n.val.n.m * Pow2(n.val.n.e) + 1,
                                               -1), <<>>)
             ELSE n.val
    IN IF to \in {"f32", "f64"}
       THEN IF n.res = "Ok" THEN as_float(v, to) ELSE Conv("ParseError", NoPayload, to)
       ELSE IF to = "raw" /\ Len(s) % 2 = 0 /\ \A i \in 1..Len(s) : IsDigit(s[i])
            THEN Conv("Ok", Payload("raw", NumOf(0), s), to)
       ELSE Conv("ParseError", NoPayload, to)

\* as_f32 .. as_bool
as_other(cell, H, getter) ==
    LET nt == cell.native_type
        to == TargetName(getter)
        g == IF nt \in {"CLOB", "BLOB"} THEN get_lob_as_string_unchecked(cell, H, to)
             ELSE get_unchecked(cell, H, to)
        gs == get_string(cell, H, to)
    IN IF nt \notin Arms(getter) THEN invalid_conversion_to_rust_type(cell, H, to)
       ELSE IF getter = "as_string" /\ nt \in {"Int64", "UInt64", "Float", "Double"}
               /\ g.val.k \in {"int", "flt"} /\ MagLtPow2(g.val.n, 31) /\ g.val.n.e >= -1
            THEN Then(g, Conv("Ok", Payload(to, NumOf(0), display(g.val)), to))
       ELSE IF getter = "as_string" THEN Then(g, rendered(g.val, to))
       ELSE IF nt \in {"Char", "CLOB", "Number"} THEN Then(gs, from_str(gs.val.s, to))
       ELSE IF getter \in {"as_f32", "as_f64"} THEN Then(g, as_float(g.val, to))
       ELSE Then(g, rendered(g.val, to))

Getters == {"as_" \o T : T \in IntTypes} \cup OtherGetters

\* FromSql::from_sql of the host type: the typed getter of the cell
Getter(cell, H, getter) ==
    IF getter \in OtherGetters THEN as_other(cell, H, getter)
    ELSE as_int(cell, H, CHOOSE T \in IntTypes : getter = "as_" \o T)

\* ---------------------------------------------------------------- setters

\* dpiData_setInt64 and its like, leaving the null flag as it is
write_payload(cell, H, p) ==
    IF ~Deref(cell, H) THEN CellRes(cell, H, "UB")
    ELSE CellRes(cell, [H EXCEPT !.vars[cell.data].val = p], "Ok")

\* dpiData_setInt64 and its like: write the payload, clear the null flag
write_data(cell, H, p) ==
    IF ~Deref(cell, H) THEN CellRes(cell, H, "UB")
    ELSE CellRes(cell, [H EXCEPT !.vars[cell.data].val = p,
                                 !.vars[cell.data].isNull = FALSE], "Ok")

\* set_bytes_unchecked: through the driver when the cell owns a buffer
set_bytes_unchecked(cell, H, p) ==
    IF cell.handle = 0 THEN write_data([cell EXCEPT !.keep_bytes = p.s], H, p)
    ELSE LET H1 == Call(H, "dpiVar_setFromBytes", cell.handle, <<>>)
         IN IF Fails(H1) THEN CellRes(cell, H1, "DpiError")
            ELSE CellRes(cell, [H1 EXCEPT !.vars[cell.handle].val = p,
                                          !.vars[cell.handle].isNull = FALSE], "Ok")

invalid_conversion_from_rust_type(cell, H) ==
    IF cell.oratype # NoOraType THEN CellRes(cell, H, "InvalidTypeConversion")
    ELSE CellRes(cell, H, "UninitializedBindValue")

\* the host types of define_fn_set_int!
SetTypes == IntTypes \cup {"f32", "f64"}

\* `*val as i64` and `*val as u64` of define_fn_set_int!
cast_int(p, T) ==
    IF p.k \in {"int", "big"} THEN IF T = "i64" THEN wrap_i64(p) ELSE wrap_u64(p)
    ELSE flt_as_int(p, T)

\* define_fn_set_int!: set_i8 .. set_u64, set_f32 and set_f64 of the value p
set_int(cell, H, p) ==
    LET nt == cell.native_type
    IN IF nt = "Int64" THEN write_data(cell, H, cast_int(p, "i64"))
       ELSE IF nt = "UInt64" THEN write_data(cell, H, cast_int(p, "u64"))
       ELSE IF nt = "Float" THEN write_data(cell, H, as_float(p, "f32").val)
       ELSE IF nt = "Double" THEN write_data(cell, H, as_float(p, "f64").val)
       ELSE IF nt \in {"Char", "Number"}
            THEN set_bytes_unchecked(cell, H, StrPayload(display(p)))
       ELSE invalid_conversion_from_rust_type(cell, H)

\* set_string_to_clob_unchecked and set_raw_to_blob_unchecked
set_lob_unchecked(cell, H, p) ==
    LET H1 == Call(H, "dpiLob_trim", 0, <<>>)
        H2 == Call([H1 EXCEPT !.vars[cell.data].val.s = <<>>], "dpiLob_writeBytes", 0, <<>>)
    IN IF ~Deref(cell, H) THEN CellRes(cell, H, "UB")
       ELSE IF Fails(H1) THEN CellRes(cell, H1, "DpiError")
       ELSE IF Fails(H2) THEN CellRes(cell, H2, "DpiError")
       ELSE CellRes(cell, [H2 EXCEPT !.vars[cell.data].val = p,
                                     !.vars[cell.data].isNull = FALSE], "Ok")

\* set_object_unchecked
set_object_unchecked(cell, H, p) ==
    IF cell.handle = 0 THEN write_data([cell EXCEPT !.keep_dpiobj = 1], H, p)
    ELSE LET H1 == Call(H, "dpiVar_setFromObject", cell.handle, <<>>)
         IN IF Fails(H1) THEN CellRes(cell, H1, "DpiError")
            ELSE CellRes(cell, [H1 EXCEPT !.vars[cell.handle].val = p,
                                          !.vars[cell.handle].isNull = FALSE], "Ok")

\* check_number_format: a sign, digits, and a fraction
check_number_format(s) == from_str(s, "f64").res

\* what a `?` hands on: the setter runs on the parsed value only
parsed(c, cell, H, set) == IF c.res # "Ok" THEN CellRes(cell, H, c.res) ELSE set

\* set_string
set_string(cell, H, s) ==
    LET nt == cell.native_type
        sp == StrPayload(s)
    IN CASE nt = "Int64" ->
              parsed(parse_int(s, "i64"), cell, H, write_data(cell, H, parse_int(s, "i64").val))
         [] nt = "UInt64" ->
              parsed(parse_int(s, "u64"), cell, H, write_data(cell, H, parse_int(s, "u64").val))
         [] nt = "Float" ->
              parsed(from_str(s, "f32"), cell, H, write_data(cell, H, from_str(s, "f32").val))
         [] nt = "Double" ->
              parsed(from_str(s, "f64"), cell, H, write_data(cell, H, from_str(s, "f64").val))
         [] nt = "Char" -> set_bytes_unchecked(cell, H, sp)
         [] nt = "Number" ->
              IF check_number_format(s) # "Ok" THEN CellRes(cell, H, "ParseError")
              ELSE set_bytes_unchecked(cell, H, sp)
         [] nt = "Raw" ->
              parsed(from_str(s, "raw"), cell, H, set_bytes_unchecked(cell, H, sp))
         [] nt \in {"Timestamp", "IntervalDS", "IntervalYM"} ->
              parsed(from_str(s, nt), cell, H, write_data(cell, H, from_str(s, nt).val))
         [] nt = "CLOB" -> set_lob_unchecked(cell, H, sp)
         [] nt = "BLOB" -> parsed(from_str(s, "raw"), cell, H, set_lob_unchecked(cell, H, sp))
         [] OTHER -> invalid_conversion_from_rust_type(cell, H)

\* set_bytes .. set_bool: the setter of a host type that is its own
\* encoding; p is the value in that encoding
set_other(cell, H, setter, p) ==
    LET nt == cell.native_type
    IN CASE setter = "set_bytes" /\ nt = "Raw" -> set_bytes_unchecked(cell, H, p)
         [] setter = "set_bytes" /\ nt = "BLOB" -> set_lob_unchecked(cell, H, p)
         [] setter = "set_timestamp" /\ nt = "Timestamp" -> write_data(cell, H, p)
         [] setter = "set_interval_ds" /\ nt = "IntervalDS" -> write_data(cell, H, p)
         [] setter = "set_interval_ym" /\ nt = "IntervalYM" -> write_data(cell, H, p)
         [] setter \in {"set_object", "set_collection"} /\ nt \in {"Object", "Collection"} ->
              set_object_unchecked(cell, H, p)
         [] setter = "set_bool" /\ nt = "Boolean" -> write_data(cell, H, p)
         [] OTHER -> invalid_conversion_from_rust_type(cell, H)

\* SqlValue::is_null
is_null(cell, H) ==
    IF ~Deref(cell, H) THEN GetRes("UB", NoPayload, cell.oratype, "bool", TRUE, H)
    ELSE GetRes("Ok", Payload("bool", NumOf(IF H.vars[cell.data].isNull THEN 1 ELSE 0), <<>>),
                cell.oratype, "bool", TRUE, H)

set_null(cell, H) ==
    IF ~Deref(cell, H) THEN CellRes(cell, H, "UB")
    ELSE CellRes(cell, [H EXCEPT !.vars[cell.data].isNull = TRUE], "Ok")

\* ------------------------------------------------------- host values
\* a value that implements ToSql: an i64, a &str, an OracleType (a null) or
\* a Duration of whole days
HostValue(host, i, s, oratype) == [host |-> host, i |-> i, s |-> s, oratype |-> oratype]

I64(i) == HostValue("i64", i, <<>>, NoOraType)

Str(s) == HostValue("str", 0, s, NoOraType)

NullOf(oratype) == HostValue("OracleType", 0, <<>>, oratype)

Dur(days) == HostValue("Duration", days, <<>>, NoOraType)

BindValues ==
    {I64(7), Str(<<"1", "2">>), NullOf(OraType("Varchar2", 1, 0)),
     Dur(-999999999), Dur(1000000000)}

\* ToSql::oratype
oratype_of(value) ==
    CASE value.host = "i64" -> OraType("Int64", 0, 0)
      [] value.host = "str" -> OraType("Varchar2", Len(value.s), 0)
      [] value.host = "OracleType" -> value.oratype
      [] value.host = "Duration" -> OraType("IntervalDS", 9, 9)

\* the days of a Duration as the buffer holds them
interval_ds(value) == Payload("IntervalDS", NumOf(value.i), <<>>)

\* ToSql::to_sql of Duration without the check of the days
duration_to_sql_unchecked(value, cell, H) ==
    set_other(cell, H, "set_interval_ds", interval_ds(value))

\* ToSql::to_sql of Duration: INTERVAL DAY TO SECOND holds up to nine digits
\* of days
duration_to_sql(value, cell, H) ==
    IF value.i >= 1000000000 \/ value.i <= -1000000000 THEN CellRes(cell, H, "Overflow")
    ELSE set_other(cell, H, "set_interval_ds", interval_ds(value))

\* ToSql::to_sql
to_sql(value, cell, H) ==
    CASE value.host = "i64" -> set_int(cell, H, IntPayload(value.i))
      [] value.host = "str" -> set_string(cell, H, value.s)
      [] value.host = "OracleType" -> set_null(cell, H)
      [] value.host = "Duration" -> duration_to_sql(value, cell, H)

\* -------------------------------------------------------- Bind Directory
ByPos(i) == [by |-> "pos", pos |-> i, name |-> <<>>]

ByName(name) == [by |-> "name", pos |-> 0, name |-> name]

IdxRes(res, pos) == [res |-> res, pos |-> pos]

\* impl BindIndex for usize. `*self - 1` of 0 overflows: a debug build
\* panics there, a release build wraps to usize::MAX and panics at
\* bind_values[pos]
usize_idx(i, S) ==
    IF 0 < S.bind_count /\ i <= S.bind_count
    THEN IF i = 0 THEN IdxRes("panic", 0) ELSE IdxRes("Ok", i - 1)
    ELSE IdxRes("InvalidBindIndex", 0)

\* impl BindIndex for &str
\* impl BindIndex for &str without the to_uppercase of the name
str_idx_exact(name, S) ==
    LET pos == Position(S.bind_names, name)
    IN IF pos >= 0 THEN IdxRes("Ok", pos) ELSE IdxRes("InvalidBindName", 0)

str_idx(name, S) ==
    LET pos == Position(S.bind_names, to_uppercase(name))
    IN IF pos >= 0 THEN IdxRes("Ok", pos) ELSE IdxRes("InvalidBindName", 0)

idx(bindidx, S) ==
    IF bindidx.by = "pos" THEN usize_idx(bindidx.pos, S) ELSE str_idx(bindidx.name, S)

\* ------------------------------------------------------ Statement Engine
\* the names the driver knows bind variables by
UNames == {to_uppercase(m) : m \in Markers \cup Spellings}

\* the driver before any statement is prepared
NoDriver ==
    [vars |-> [id \in 1..MaxVars |-> FreeVar],
     bnd |-> [pos |-> [i \in 1..MaxBinds |-> 0], name |-> [n \in UNames |-> 0]],
     def |-> [i \in 1..MaxCols |-> 0],
     stmt |-> [refs |-> 0, released |-> 0, open |-> FALSE, markers |-> <<>>],
     rs |-> [active |-> FALSE, nrows |-> 0, cursor |-> 0, buf |-> <<>>],
     log |-> <<>>]

\* the driver at the start of an operation whose failAt-th call fails
Enter(D, failAt) ==
    [vars |-> D.vars, bnd |-> D.bnd, def |-> D.def, stmt |-> D.stmt, rs |-> D.rs,
     log |-> <<>>, calls |-> 0, failAt |-> failAt]

Leave(H) ==
    [vars |-> H.vars, bnd |-> H.bnd, def |-> H.def, stmt |-> H.stmt, rs |-> H.rs,
     log |-> H.log]

\* a call on the statement handle fails on a null handle too
StmtFails(S, H) == Fails(H) \/ S.handle = 0

ColumnInfo(name, oracle_type, nullable) ==
    [name |-> name, oracle_type |-> oracle_type, nullable |-> nullable]

\* struct Statement before prepare
NoStatement ==
    [handle |-> 0, statement_type |-> "none", bind_count |-> 0, bind_names |-> <<>>,
     bind_values |-> <<>>, row |-> [column_info |-> <<>>, column_values |-> <<>>],
     fetch_array_size |-> 0]

\* the result of a statement operation
OpRes(S, H, res) == [S |-> S, H |-> H, res |-> res]

\* Drop for SqlValue, for every cell of a vector
RECURSIVE drop_cells(_, _)
drop_cells(cells, H) ==
    IF cells = <<>> THEN H
    ELSE drop_cells(Tail(cells),
                    IF Head(cells).handle # 0 THEN VarRelease(H, Head(cells).handle) ELSE H)

\* dpiVar_addRef without the reference
VarNoRef(H, id) == Note(H, "dpiVar_addRef", id)

\* dpiVar_addRef: one more reference to a buffer that exists
VarAddRef(H, id) ==
    LET H1 == Note(H, "dpiVar_addRef", id)
    IN IF H1.vars[id].refs = 0 THEN H1 ELSE [H1 EXCEPT !.vars[id].refs = @ + 1]

\* Clone for SqlValue
clone(cell, H) ==
    CellRes([cell EXCEPT !.keep_bytes = <<>>, !.keep_dpiobj = 0],
            IF cell.handle # 0 THEN VarAddRef(H, cell.handle) ELSE H, "Ok")

\* BindIndex::bind: dpiStmt_bindByPos or dpiStmt_bindByName
attach(bindidx, S, H, var) ==
    LET H1 == IF bindidx.by = "pos" THEN Call(H, "dpiStmt_bindByPos", bindidx.pos, <<>>)
              ELSE Call(H, "dpiStmt_bindByName", 0, bindidx.name)
    IN IF StmtFails(S, H1) THEN [H |-> H1, res |-> "DpiError"]
       ELSE IF bindidx.by = "pos"
            THEN [H |-> [H1 EXCEPT !.bnd.pos[bindidx.pos] = var], res |-> "Ok"]
       ELSE [H |-> [H1 EXCEPT !.bnd.name[to_uppercase(bindidx.name)] = var], res |-> "Ok"]

\* the end of Statement::bind: st is what value.to_sql returned for the cell
\* of the slot
bind_written(S, slot, st) ==
    OpRes([S EXCEPT !.bind_values[slot] = st.cell], st.H, st.res)

\* Statement::bind after the buffer was allocated: at is what
\* bindidx.bind(self.handle, handle) returned
bind_attached(S, slot, value, at) ==
    IF at.res # "Ok" THEN OpRes(S, at.H, at.res)
    ELSE bind_written(S, slot, to_sql(value, S.bind_values[slot], at.H))

\* Statement::bind attaching the buffer whether it is new or not
bind_slot_always(S, slot, bindidx, value, ih) ==
    LET S1 == [S EXCEPT !.bind_values[slot] = ih.cell]
    IN IF ih.res = "DpiError" THEN OpRes(S1, ih.H, "DpiError")
       ELSE bind_attached(S1, slot, value, attach(bindidx, S1, ih.H, ih.cell.handle))

\* Statement::bind after the slot was resolved: ih is what init_handle
\* returned for the cell of the slot
bind_slot(S, slot, bindidx, value, ih) ==
    LET S1 == [S EXCEPT !.bind_values[slot] = ih.cell]
    IN IF ih.res = "DpiError" THEN OpRes(S1, ih.H, "DpiError")
       ELSE IF ih.res = "true"
            THEN bind_attached(S1, slot, value, attach(bindidx, S1, ih.H, ih.cell.handle))
       ELSE bind_written(S1, slot, to_sql(value, ih.cell, ih.H))

\* Statement::bind from `let pos = bindidx.idx(&self)?` on: r is what idx
\* returned
bind_at(S, H, bindidx, value, r) ==
    IF r.res # "Ok" THEN OpRes(S, H, r.res)
    ELSE bind_slot(S, r.pos + 1, bindidx, value,
                   init_handle(S.bind_values[r.pos + 1], H, oratype_of(value), 1))

\* the record of what a call of Statement::bind returned
bind_returned(o) ==
    [o EXCEPT !.H.log = Append(@, [f |-> "Statement::bind returned", pos |-> 0,
                                   name |-> <<o.res>>])]

\* Statement::bind
bind(S, H, bindidx, value) ==
    bind_returned(
        bind_at(S, [H EXCEPT !.log = Append(@, [f |-> "Statement::bind", pos |-> bindidx.pos,
                                                name |-> bindidx.name])],
                bindidx, value, idx(bindidx, S)))

\* Statement::bind_value
bind_value(S, H, bindidx, getter) ==
    LET r == idx(bindidx, S)
    IN IF r.res # "Ok"
       THEN GetRes(r.res, NoPayload, NoOraType, getter, FALSE, H)
       ELSE Getter(S.bind_values[r.pos + 1], H, getter)

\* DPI_MAX_INT64_PRECISION of the driver header
DPI_MAX_INT64_PRECISION == 18

\* the type a column is defined as, with the threshold included
define_type_inclusive(oratype) ==
    IF oratype.t = "Number" /\ oratype.s = 0
       /\ 0 < oratype.p /\ oratype.p <= DPI_MAX_INT64_PRECISION
    THEN OraType("Int64", 0, 0)
    ELSE oratype

\* the type a column is defined as
define_type(oratype) ==
    IF oratype.t = "Number" /\ oratype.s = 0
       /\ 0 < oratype.p /\ oratype.p < DPI_MAX_INT64_PRECISION
    THEN OraType("Int64", 0, 0)
    ELSE oratype

RECURSIVE define_columns(_, _, _, _)
\* the loop of execute_internal over the columns i..num_cols of the query
define_columns(S, H, cols, i) ==
    IF i > Len(cols) THEN OpRes(S, H, "Ok")
    ELSE LET H1 == Call(H, "dpiStmt_getQueryInfo", i, <<>>)
             S1 == [S EXCEPT !.row.column_info = Append(@, cols[i])]
             ih == init_handle(S1.row.column_values[i], H1, define_type(cols[i].oracle_type),
                               DPI_DEFAULT_FETCH_ARRAY_SIZE)
             S2 == [S1 EXCEPT !.row.column_values[i] = ih.cell]
             H2 == Call(ih.H, "dpiStmt_define", i, <<>>)
         IN IF StmtFails(S, H1) THEN OpRes(S, H1, "DpiError")
            ELSE IF ih.res = "DpiError" THEN OpRes(S2, ih.H, "DpiError")
            ELSE IF StmtFails(S, H2) THEN OpRes(S2, H2, "DpiError")
            ELSE define_columns(S2, [H2 EXCEPT !.def[i] = ih.cell.handle], cols, i + 1)

\* dpiStmt_execute refuses a statement one of whose markers has no buffer
\* attached by its position or by its name
Unbound(H) ==
    \E i \in 1..Len(H.stmt.markers) :
        H.bnd.pos[i] = 0 /\ H.bnd.name[H.stmt.markers[i]] = 0

\* Statement::execute_internal without the Drop of the column cells it
\* replaces
execute_internal_keeping(S, H, cols, nrows) ==
    LET H1 == Call(H, "dpiStmt_execute", 0, <<>>)
        H2 == [H1 EXCEPT !.rs = [active |-> S.statement_type = "select", nrows |-> nrows,
                                 cursor |-> 0, buf |-> <<>>],
                         !.def = [i \in 1..MaxCols |-> 0]]
        H3 == Call(H2, "dpiStmt_getFetchArraySize", 0, <<>>)
        S3 == [S EXCEPT !.fetch_array_size = DPI_DEFAULT_FETCH_ARRAY_SIZE]
        num_cols == Len(cols)
        S4 == [S3 EXCEPT !.row = [column_info |-> <<>>,
                                  column_values |-> [i \in 1..num_cols |-> NewSqlValue]]]
        H4 == H3
    IN IF StmtFails(S, H1) \/ Unbound(H1) THEN OpRes(S, H1, "DpiError")
       ELSE IF StmtFails(S, H3) THEN OpRes(S, H3, "DpiError")
       ELSE IF S.statement_type = "select" THEN define_columns(S4, H4, cols, 1)
       ELSE OpRes(S3, H3, "Ok")

\* Statement::execute_internal; cols and nrows are the result the database
\* produces for the statement
execute_internal(S, H, cols, nrows) ==
    LET H1 == Call(H, "dpiStmt_execute", 0, <<>>)
        H2 == [H1 EXCEPT !.rs = [active |-> S.statement_type = "select", nrows |-> nrows,
                                 cursor |-> 0, buf |-> <<>>],
                         !.def = [i \in 1..MaxCols |-> 0]]
        H3 == Call(H2, "dpiStmt_getFetchArraySize", 0, <<>>)
        S3 == [S EXCEPT !.fetch_array_size = DPI_DEFAULT_FETCH_ARRAY_SIZE]
        num_cols == Len(cols)
        S4 == [S3 EXCEPT !.row = [column_info |-> <<>>,
                                  column_values |-> [i \in 1..num_cols |-> NewSqlValue]]]
        H4 == drop_cells(S.row.column_values, H3)
    IN IF StmtFails(S, H1) \/ Unbound(H1) THEN OpRes(S, H1, "DpiError")
       ELSE IF StmtFails(S, H3) THEN OpRes(S, H3, "DpiError")
       ELSE IF S.statement_type = "select" THEN define_columns(S4, H4, cols, 1)
       ELSE OpRes(S3, H3, "Ok")

RECURSIVE bind_all(_, _, _, _)
\* the `?` on self.bind in the loops: b is what bind returned, the loop goes
\* on with the parameters left only when it is Ok
bind_next(b, idxs, values) ==
    IF b.res # "Ok" THEN b ELSE bind_all(b.S, b.H, idxs, values)

\* the loops of Statement::execute and Statement::execute_named
bind_all(S, H, idxs, values) ==
    IF idxs = <<>> THEN OpRes(S, H, "Ok")
    ELSE bind_next(bind(S, H, Head(idxs), Head(values)), Tail(idxs), Tail(values))

\* Statement::execute and Statement::execute_named without the `?` on bind
execute_unchecked(S, H, idxs, values, cols, nrows) ==
    LET b == bind_all(S, H, idxs, values)
    IN execute_internal(b.S, b.H, cols, nrows)

\* the call of execute_internal after the loop; b is what the loop returned
bound(b, cols, nrows) ==
    IF b.res # "Ok" THEN b ELSE execute_internal(b.S, b.H, cols, nrows)

\* Statement::execute and Statement::execute_named
execute(S, H, idxs, values, cols, nrows) ==
    bound(bind_all(S, H, idxs, values), cols, nrows)

\* dpiStmt_fetch: the driver refills its buffers with the next rows when the
\* last batch is used up, and hands out the buffer index of the next row
fetch_refill(rs, array_size) ==
    IF rs.cursor % array_size # 0 THEN rs.buf
    ELSE [i \in 1..array_size |->
            IF rs.cursor + i <= rs.nrows THEN rs.cursor + i ELSE 0]

\* Statement::fetch without the update of buffer_row_index
fetch_same_row(S, H) ==
    LET H1 == Call(H, "dpiStmt_fetch", 0, <<>>)
        found == H1.rs.cursor < H1.rs.nrows
        H2 == [H1 EXCEPT !.rs.buf = fetch_refill(H1.rs, DPI_DEFAULT_FETCH_ARRAY_SIZE),
                         !.rs.cursor = @ + 1]
    IN IF StmtFails(S, H1) \/ ~H1.rs.active THEN OpRes(S, H1, "DpiError")
       ELSE IF found THEN OpRes(S, H2, "Row")
       ELSE OpRes(S, H1, "NoMoreData")

\* Statement::fetch moving the first column cell only
fetch_first_column(S, H) ==
    LET H1 == Call(H, "dpiStmt_fetch", 0, <<>>)
        found == H1.rs.cursor < H1.rs.nrows
        buffer_row_index == H1.rs.cursor % DPI_DEFAULT_FETCH_ARRAY_SIZE
        H2 == [H1 EXCEPT !.rs.buf = fetch_refill(H1.rs, DPI_DEFAULT_FETCH_ARRAY_SIZE),
                         !.rs.cursor = @ + 1]
        S2 == [S EXCEPT !.row.column_values =
                 [i \in 1..Len(@) |->
                    IF i = 1 THEN [@[i] EXCEPT !.buffer_row_index = buffer_row_index]
                    ELSE @[i]]]
    IN IF StmtFails(S, H1) \/ ~H1.rs.active THEN OpRes(S, H1, "DpiError")
       ELSE IF found THEN OpRes(S2, H2, "Row")
       ELSE OpRes(S, H1, "NoMoreData")

\* Statement::fetch
fetch(S, H) ==
    LET H1 == Call(H, "dpiStmt_fetch", 0, <<>>)
        found == H1.rs.cursor < H1.rs.nrows
        buffer_row_index == H1.rs.cursor % DPI_DEFAULT_FETCH_ARRAY_SIZE
        H2 == [H1 EXCEPT !.rs.buf = fetch_refill(H1.rs, DPI_DEFAULT_FETCH_ARRAY_SIZE),
                         !.rs.cursor = @ + 1]
        S2 == [S EXCEPT !.row.column_values =
                 [i \in 1..Len(@) |-> [@[i] EXCEPT !.buffer_row_index = buffer_row_index]]]
    IN IF StmtFails(S, H1) \/ ~H1.rs.active THEN OpRes(S, H1, "DpiError")
       ELSE IF found THEN OpRes(S2, H2, "Row")
       ELSE OpRes(S, H1, "NoMoreData")

\* Statement::close and close_internal
close(S, H) ==
    LET H1 == Call(H, "dpiStmt_close", 0, <<>>)
    IN IF StmtFails(S, H1) THEN OpRes(S, H1, "DpiError")
       ELSE OpRes([S EXCEPT !.handle = 0],
                  [H1 EXCEPT !.stmt.open = FALSE, !.rs.active = FALSE], "Ok")

\* dpiStmt_release: gives up one reference of a handle that is not null
stmt_release(handle, H) ==
    LET H1 == Note(H, "dpiStmt_release", handle)
    IN IF handle = 0 THEN H1
       ELSE [H1 EXCEPT !.stmt.refs = @ - 1, !.stmt.released = @ + 1,
                       !.stmt.open = FALSE, !.rs.active = FALSE]

\* Drop for Statement, then the drop of its fields
drop(S, H) ==
    LET H1 == stmt_release(S.handle, H)
        H2 == drop_cells(S.row.column_values, H1)
    IN OpRes(S, drop_cells(S.bind_values, H2), "Ok")

\* impl ColumnIndex for usize matching the column count as well
usize_column_idx_inclusive(i, column_info) ==
    IF i <= Len(column_info) THEN IdxRes("Ok", i) ELSE IdxRes("InvalidColumnIndex", 0)

\* impl ColumnIndex for usize
usize_column_idx(i, column_info) ==
    IF i < Len(column_info) THEN IdxRes("Ok", i) ELSE IdxRes("InvalidColumnIndex", 0)

RECURSIVE str_column_idx_from(_, _, _)
\* the loop of impl ColumnIndex for &str from the column at idx (0-based) on
str_column_idx_from(name, column_info, i) ==
    IF i >= Len(column_info) THEN IdxRes("InvalidColumnName", 0)
    ELSE IF eq_ignore_ascii_case(column_info[i + 1].name, name) THEN IdxRes("Ok", i)
    ELSE str_column_idx_from(name, column_info, i + 1)

\* impl ColumnIndex for &str
str_column_idx(name, column_info) == str_column_idx_from(name, column_info, 0)

\* ColumnIndex::idx
column_idx(colidx, column_info) ==
    IF colidx.by = "pos" THEN usize_column_idx(colidx.pos, column_info)
    ELSE str_column_idx(colidx.name, column_info)

\* Row::get; r is what colidx.idx(&self.column_info) returned
row_get(r, row, H, getter) ==
    IF r.res # "Ok" THEN GetRes(r.res, NoPayload, NoOraType, "", FALSE, H)
    ELSE IF r.pos >= Len(row.column_values)
         THEN GetRes("panic", NoPayload, NoOraType, "", FALSE, H)
    ELSE Getter(row.column_values[r.pos + 1], H, getter)

\* a statement text: its kind, its bind markers as written, and the columns
\* of its result
Text(kind, markers, cols) == [kind |-> kind, markers |-> markers, cols |-> cols]

Texts ==
    {Text("select", <<>>, <<ColumnInfo(<<"a">>, OraType("Number", 4, 0), FALSE),
                            ColumnInfo(<<"B">>, OraType("Varchar2", 3, 0), TRUE)>>),
     Text("select", <<<<"a">>, <<"a">>>>,
          <<ColumnInfo(<<"a">>, OraType("Number", 7, 2), TRUE)>>),
     Text("begin", <<<<"a">>, <<"b">>, <<"a">>>>, <<>>)}

\* the markers the driver binds by position: dpiStmt_bindByPos counts every
\* marker of an SQL statement and the unique names of a PL/SQL block
driver_markers(text) ==
    LET upper == [i \in 1..Len(text.markers) |-> to_uppercase(text.markers[i])]
    IN IF text.kind = "begin" THEN Unique(upper) ELSE upper

\* dpiStmt_getBindCount: every marker of an SQL statement, the unique names
\* of a PL/SQL block
driver_bind_count(text) == Len(driver_markers(text))

\* dpiStmt_getBindNames: the unique names, in upper case
driver_bind_names(text) ==
    Unique([i \in 1..Len(text.markers) |-> to_uppercase(text.markers[i])])

\* Statement::new without the release of the handle when dpiStmt_getBindNames
\* fails
new_leaky(text, H) ==
    LET H1 == Call(H, "dpiConn_prepareStmt", 0, <<>>)
        H1a == [H1 EXCEPT !.stmt = [refs |-> 1, released |-> 0, open |-> TRUE,
                                    markers |-> driver_markers(text)]]
        H2 == Call(H1a, "dpiStmt_getInfo", 0, <<>>)
        H3 == Call(H2, "dpiStmt_getBindCount", 0, <<>>)
        bind_count == driver_bind_count(text)
        H4 == IF bind_count > 0 THEN Call(H3, "dpiStmt_getBindNames", 0, <<>>) ELSE H3
    IN IF Fails(H1) THEN OpRes(NoStatement, H1, "DpiError")
       ELSE IF Fails(H2) THEN OpRes(NoStatement, stmt_release(1, H2), "DpiError")
       ELSE IF Fails(H3) THEN OpRes(NoStatement, stmt_release(1, H3), "DpiError")
       ELSE IF bind_count > 0 /\ Fails(H4)
            THEN OpRes(NoStatement, H4, "DpiError")
       ELSE OpRes([handle |-> 1, statement_type |-> text.kind, bind_count |-> bind_count,
                   bind_names |-> driver_bind_names(text),
                   bind_values |-> [i \in 1..bind_count |-> NewSqlValue],
                   row |-> [column_info |-> <<>>, column_values |-> <<>>],
                   fetch_array_size |-> 0],
                  H4, "Ok")

\* Statement::new
new(text, H) ==
    LET H1 == Call(H, "dpiConn_prepareStmt", 0, <<>>)
        H1a == [H1 EXCEPT !.stmt = [refs |-> 1, released |-> 0, open |-> TRUE,
                                    markers |-> driver_markers(text)]]
        H2 == Call(H1a, "dpiStmt_getInfo", 0, <<>>)
        H3 == Call(H2, "dpiStmt_getBindCount", 0, <<>>)
        bind_count == driver_bind_count(text)
        H4 == IF bind_count > 0 THEN Call(H3, "dpiStmt_getBindNames", 0, <<>>) ELSE H3
    IN IF Fails(H1) THEN OpRes(NoStatement, H1, "DpiError")
       ELSE IF Fails(H2) THEN OpRes(NoStatement, stmt_release(1, H2), "DpiError")
       ELSE IF Fails(H3) THEN OpRes(NoStatement, stmt_release(1, H3), "DpiError")
       ELSE IF bind_count > 0 /\ Fails(H4)
            THEN OpRes(NoStatement, stmt_release(1, H4), "DpiError")
       ELSE OpRes([handle |-> 1, statement_type |-> text.kind, bind_count |-> bind_count,
                   bind_names |-> driver_bind_names(text),
                   bind_values |-> [i \in 1..bind_count |-> NewSqlValue],
                   row |-> [column_info |-> <<>>, column_values |-> <<>>],
                   fetch_array_size |-> 0],
                  H4, "Ok")

\* ------------------------------------------------------------- the state
VARIABLES
    life,   \* "unprepared", "live" (a Statement exists) or "dropped"
    text,   \* the statement text given to prepare
    stmt,   \* struct Statement
    dpi,    \* the driver: buffers, attachments, reference counts, cursor,
            \* and the calls the last operation made
    ret,    \* the last operation, its arguments and what it returned
    val,    \* SpecCell: the SqlValue under test
    out,    \* SpecCell: the last getter and what it returned
    ops     \* the bind and execute calls made on the statement so far

vars == <<life, text, stmt, dpi, ret, val, out, ops>>

\* the last operation and its result
Ret(op, bindidx, res) ==
    [op |-> op, idx |-> bindidx, slot |-> 0, getter |-> "", value |-> I64(0),
     idxs |-> <<>>, values |-> <<>>, res |-> res, read |-> FALSE, seen |-> 0]

NoCell == [cell |-> NewSqlValue, vars |-> [id \in 1..MaxVars |-> FreeVar]]

NoOut == [getter |-> "", res |-> "", from |-> NoOraType, to |-> "", read |-> FALSE,
          val |-> NoPayload, fault |-> FALSE]

Init ==
    /\ life = "unprepared"
    /\ text = Text("none", <<>>, <<>>)
    /\ stmt = NoStatement
    /\ dpi = NoDriver
    /\ ret = Ret("none", ByPos(0), "Ok")
    /\ val = NoCell
    /\ out = NoOut
    /\ ops = 0

\* what undefined behaviour can come to: a crash, or a result made of
\* whatever the memory holds
UBOutcomes == {"Crash", "NullValue", "Ok"}

\* the bind and execute calls followed on one statement
MaxOps == 2

Tick == ops < MaxOps /\ ops' = ops + 1

\* `src_val as $dest_type` of a float the destination cannot hold is
\* undefined in the compilers of the crate's time and saturates in later ones
CastOutcomes == {"saturated", "undefined"}

Outcomes(res) ==
    IF res = "UB" THEN UBOutcomes ELSE IF res = "UBCast" THEN {"Ok"} ELSE {res}

\* what a getter hands to its caller
Results(r) ==
    IF r.res = "UB" THEN {<<x, NoPayload>> : x \in UBOutcomes}
    ELSE IF r.res = "UBCast" THEN {<<"Ok", Payload(k, r.val.n, <<>>)>> : k \in CastOutcomes}
    ELSE {<<r.res, r.val>>}

\* Connection::prepare
Prepare(t, failAt) ==
    /\ life = "unprepared"
    /\ \E r \in {new(t, Enter([NoDriver EXCEPT !.vars = dpi.vars], failAt))} :
          /\ stmt' = r.S
          /\ dpi' = Leave(r.H)
          /\ life' = IF r.res = "Ok" THEN "live" ELSE "unprepared"
          /\ text' = IF r.res = "Ok" THEN t ELSE text
          /\ ret' = Ret("prepare", ByPos(0), r.res)
    /\ UNCHANGED <<val, out, ops>>

Close(failAt) ==
    /\ life = "live"
    /\ \E r \in {close(stmt, Enter(dpi, failAt))} :
          /\ stmt' = r.S
          /\ dpi' = Leave(r.H)
          /\ ret' = Ret("close", ByPos(0), r.res)
    /\ UNCHANGED <<life, text, val, out, ops>>

Drop ==
    /\ life = "live"
    /\ \E r \in {drop(stmt, Enter(dpi, 0))} :
          /\ dpi' = Leave(r.H)
          /\ ret' = Ret("drop", ByPos(0), r.res)
    /\ life' = "dropped"
    /\ UNCHANGED <<text, stmt, val, out, ops>>

\* the positions and names callers address bind variables by
BindIdxs == {ByPos(i) : i \in 0..(MaxBinds + 1)} \cup {ByName(n) : n \in Spellings}

\* the points at which an operation can fail: at each of the n driver calls
\* it makes when none fails, or nowhere
FailPoints(n) == 0..n

\* the slot of bind_values an operation addresses, counted from 1; 0 when
\* the position or name resolves to none
Slot(bindidx) ==
    LET r == idx(bindidx, stmt) IN IF r.res = "Ok" THEN r.pos + 1 ELSE 0

\* the points at which bind can fail
BindFails(bindidx, value) ==
    IF life = "live" /\ ops < MaxOps
    THEN FailPoints(bind(stmt, Enter(dpi, 0), bindidx, value).H.calls)
    ELSE {0}

\* Statement::bind
Bind(bindidx, value, failAt) ==
    /\ life = "live"
    /\ Tick
    /\ \E r \in {bind(stmt, Enter(dpi, failAt), bindidx, value)} :
          /\ stmt' = r.S
          /\ dpi' = Leave(r.H)
          /\ \E res \in Outcomes(r.res) :
               ret' = [Ret("bind", bindidx, res) EXCEPT !.value = value,
                                                        !.slot = Slot(bindidx)]
    /\ UNCHANGED <<life, text, val, out>>

BindValue(bindidx, getter) ==
    /\ life = "live"
    /\ Tick
    /\ \E r \in {bind_value(stmt, Enter(dpi, 0), bindidx, getter)} :
          /\ dpi' = Leave(r.H)
          /\ \E res \in Outcomes(r.res) :
               ret' = [Ret("bind_value", bindidx, res) EXCEPT !.getter = getter,
                                                               !.read = r.read,
                                                               !.slot = Slot(bindidx)]
    /\ UNCHANGED <<life, text, stmt, val, out>>

ExecValues == {I64(7), Str(<<"1", "2">>)}

ExecNames == {<<"a">>, <<"1">>}

NamedParams == SeqsUpTo({ByName(n) : n \in ExecNames}, MaxParams)

\* the points at which execute can fail
ExecFails(idxs, values, nrows) ==
    IF life = "live" /\ ops < MaxOps
    THEN FailPoints(execute(stmt, Enter(dpi, 0), idxs, values, text.cols, nrows).H.calls)
    ELSE {0}

\* the rows the statement's result has
Rows(max) == IF text.kind = "select" THEN 0..max ELSE {0}

Exec(idxs, values, nrows, failAt) ==
    /\ life = "live"
    /\ Tick
    /\ \E r \in {execute(stmt, Enter(dpi, failAt), idxs, values, text.cols, nrows)} :
          /\ stmt' = r.S
          /\ dpi' = Leave(r.H)
          /\ \E res \in Outcomes(r.res) :
               ret' = [Ret("execute", ByPos(0), res) EXCEPT !.idxs = idxs, !.values = values]
    /\ UNCHANGED <<life, text, val, out>>

\* Statement::execute: params[i] goes to position i + 1
Positions(values) == [i \in 1..Len(values) |-> ByPos(i)]

Execute(values, nrows, failAt) == Exec(Positions(values), values, nrows, failAt)

\* Statement::execute_named
ExecuteNamed(idxs, values, nrows, failAt) ==
    idxs \in NamedParams /\ Exec(idxs, values, nrows, failAt)

\* the row a fetched Row shows: what the driver put at the first column
\* cell's offset
SeenRow(S, D) ==
    IF S.row.column_values = <<>> \/ D.rs.buf = <<>> THEN 0
    ELSE D.rs.buf[S.row.column_values[1].buffer_row_index + 1]

Fetch(failAt) ==
    /\ life = "live"
    /\ \E r \in {fetch(stmt, Enter(dpi, failAt))} :
          /\ stmt' = r.S
          /\ dpi' = Leave(r.H)
          /\ ret' = [Ret("fetch", ByPos(0), r.res) EXCEPT
                       !.seen = IF r.res = "Row" THEN SeenRow(r.S, r.H) ELSE 0]
    /\ UNCHANGED <<life, text, val, out, ops>>

\* the life of a statement: prepare, execute, fetch, close, and the end of
\* its scope
Next ==
    \/ \E t \in Texts, failAt \in FailPoints(4) : Prepare(t, failAt)
    \/ \E nrows \in Rows(MaxRows) : \E failAt \in ExecFails(<<>>, <<>>, nrows) :
         Execute(<<>>, nrows, failAt)
    \/ \E failAt \in FailPoints(1) : Fetch(failAt)
    \/ \E failAt \in FailPoints(1) : Close(failAt)
    \/ Drop

Spec == Init /\ [][Next]_vars

\* binding: prepare, then bind and bind_value by every position and name
NextBind ==
    \/ \E t \in Texts, failAt \in FailPoints(4) : Prepare(t, failAt)
    \/ \E b \in BindIdxs, v \in BindValues : \E failAt \in BindFails(b, v) : Bind(b, v, failAt)
    \/ \E b \in BindIdxs, g \in Getters : BindValue(b, g)

SpecBind == Init /\ [][NextBind]_vars

\* executing with parameters: prepare, then execute and execute_named
NextExec ==
    \/ \E t \in Texts, failAt \in FailPoints(4) : Prepare(t, failAt)
    \/ \E values \in SeqsUpTo(ExecValues, MaxParams) :
         \E failAt \in ExecFails(Positions(values), values, 1) : Execute(values, 1, failAt)
    \/ \E idxs \in NamedParams : \E failAt \in ExecFails(idxs, [i \in 1..Len(idxs) |-> I64(7)], 1) :
         ExecuteNamed(idxs, [i \in 1..Len(idxs) |-> I64(7)], 1, failAt)

SpecExec == Init /\ [][NextExec]_vars

\* ------------------------------------------------------------- SpecRow
\* queries whose columns carry names equal but for their case
RowTexts ==
    {Text("select", <<>>, <<ColumnInfo(<<"a">>, OraType("Number", 4, 0), FALSE),
                            ColumnInfo(<<"A">>, OraType("Varchar2", 3, 0), TRUE)>>),
     Text("select", <<>>, <<ColumnInfo(<<"B">>, OraType("BinaryDouble", 0, 0), TRUE)>>)}

\* the positions and names callers address columns by
ColumnIdxs == {ByPos(i) : i \in 0..(MaxCols + 1)} \cup {ByName(n) : n \in Spellings}

\* the host types rows are read as
RowGetters == {"as_i64", "as_f64", "as_string"}

\* what the database holds in column i of every row
ColumnData(i) ==
    CASE i = 1 -> IntPayload(7)
      [] OTHER -> StrPayload(<<"1">>)

\* dpiStmt_fetch writes the row into the buffers defined for the columns
fetched(r) ==
    IF r.res # "Row" THEN r.H
    ELSE [r.H EXCEPT !.vars = [id \in 1..MaxVars |->
            IF \E i \in 1..MaxCols : r.H.def[i] = id
            THEN [@[id] EXCEPT !.isNull = FALSE,
                               !.val = ColumnData(CHOOSE i \in 1..MaxCols : r.H.def[i] = id)]
            ELSE @[id]]]

\* Statement::fetch of a row with its data
FetchRow(failAt) ==
    /\ life = "live"
    /\ \E r \in {fetch(stmt, Enter(dpi, failAt))} :
          /\ stmt' = r.S
          /\ dpi' = Leave(fetched(r))
          /\ ret' = [Ret("fetch", ByPos(0), r.res) EXCEPT
                       !.seen = IF r.res = "Row" THEN SeenRow(r.S, r.H) ELSE 0]
    /\ UNCHANGED <<life, text, val, out, ops>>

\* Row::get on the row the last fetch returned
RowGet(colidx, getter) ==
    /\ life = "live" /\ ret.op = "fetch" /\ ret.res = "Row"
    /\ \E pos \in {column_idx(colidx, stmt.row.column_info)} :
       \E r \in {row_get(pos, stmt.row, Enter(dpi, 0), getter)} :
       \E o \in Results(r) :
            out' = [getter |-> getter, res |-> o[1], from |-> r.from, to |-> r.to,
                    read |-> r.read, val |-> o[2], fault |-> FALSE]
    /\ ret' = [ret EXCEPT !.idx = colidx, !.getter = getter]
    /\ UNCHANGED <<life, text, stmt, dpi, val, ops>>

NextRow ==
    \/ \E t \in RowTexts, failAt \in FailPoints(4) : Prepare(t, failAt)
    \/ \E nrows \in Rows(MaxRows) : \E failAt \in ExecFails(<<>>, <<>>, nrows) :
         Execute(<<>>, nrows, failAt)
    \/ \E failAt \in FailPoints(1) : FetchRow(failAt)
    \/ \E colidx \in ColumnIdxs, getter \in RowGetters : RowGet(colidx, getter)

SpecRow == Init /\ [][NextRow]_vars

\* ------------------------------------------------------------- SpecVar
\* the cells a program holds at a time
MaxCells == 2

\* the Oracle types and array sizes buffers are asked for
VarTypes ==
    {OraType("Varchar2", 2, 0), OraType("Varchar2", 4, 0), OraType("Raw", 4, 0),
     OraType("Int64", 0, 0), OraType("Object", 1, 0)}

ArraySizes == {1, DPI_DEFAULT_FETCH_ARRAY_SIZE}

\* the last operation on the cells and what it returned
CellOp(op, i, oratype, array_size, res) ==
    [op |-> op, i |-> i, oratype |-> oratype, array_size |-> array_size, res |-> res]

\* no cell yet
InitVar ==
    /\ life = "unprepared"
    /\ text = Text("none", <<>>, <<>>)
    /\ stmt = NoStatement
    /\ dpi = NoDriver
    /\ ret = CellOp("none", 0, NoOraType, 0, "Ok")
    /\ val = [cells |-> <<>>]
    /\ out = NoOut
    /\ ops = 0

Without(cells, i) == [j \in 1..(Len(cells) - 1) |-> IF j < i THEN cells[j] ELSE cells[j + 1]]

\* SqlValue::new
NewCell ==
    /\ Len(val.cells) < MaxCells
    /\ val' = [cells |-> Append(val.cells, NewSqlValue)]
    /\ ret' = CellOp("new", Len(val.cells) + 1, NoOraType, 0, "Ok")
    /\ dpi' = Leave(Enter(dpi, 0))
    /\ UNCHANGED <<life, text, stmt, out, ops>>

\* SqlValue::init_handle on cell i
InitHandle(i, oratype, array_size, failAt) ==
    /\ i \in 1..Len(val.cells)
    /\ \E r \in {init_handle(val.cells[i], Enter(dpi, failAt), oratype, array_size)} :
          /\ val' = [cells |-> [val.cells EXCEPT ![i] = r.cell]]
          /\ dpi' = Leave(r.H)
          /\ ret' = CellOp("init_handle", i, oratype, array_size, r.res)
    /\ UNCHANGED <<life, text, stmt, out, ops>>

\* the clone of cell i
CloneCell(i) ==
    /\ i \in 1..Len(val.cells) /\ Len(val.cells) < MaxCells
    /\ \E r \in {clone(val.cells[i], Enter(dpi, 0))} :
          /\ val' = [cells |-> Append(val.cells, r.cell)]
          /\ dpi' = Leave(r.H)
          /\ ret' = CellOp("clone", i, NoOraType, 0, r.res)
    /\ UNCHANGED <<life, text, stmt, out, ops>>

\* the end of the life of cell i
DropCell(i) ==
    /\ i \in 1..Len(val.cells)
    /\ val' = [cells |-> Without(val.cells, i)]
    /\ dpi' = Leave(drop_cells(<<val.cells[i]>>, Enter(dpi, 0)))
    /\ ret' = CellOp("drop", i, NoOraType, 0, "Ok")
    /\ UNCHANGED <<life, text, stmt, out, ops>>

NextVar ==
    \/ NewCell
    \/ \E i \in 1..MaxCells, oratype \in VarTypes, array_size \in ArraySizes :
         \E failAt \in FailPoints(1) : InitHandle(i, oratype, array_size, failAt)
    \/ \E i \in 1..MaxCells : CloneCell(i)
    \/ \E i \in 1..MaxCells : DropCell(i)

SpecVar == InitVar /\ [][NextVar]_vars

\* ------------------------------------------------------------ SpecMark
\* plain SQL in which a bind marker is repeated: the driver counts every
\* marker and names the unique ones
MarkTexts ==
    {Text("select", <<<<"a">>, <<"a">>, <<"b">>>>,
          <<ColumnInfo(<<"a">>, OraType("Number", 4, 0), TRUE)>>),
     Text("select", <<<<"a">>, <<"b">>, <<"a">>>>,
          <<ColumnInfo(<<"a">>, OraType("Number", 4, 0), TRUE)>>)}

NextMark ==
    \/ \E t \in MarkTexts, failAt \in FailPoints(4) : Prepare(t, failAt)
    \/ \E b \in BindIdxs, v \in ExecValues : \E failAt \in BindFails(b, v) : Bind(b, v, failAt)
    \/ \E b \in BindIdxs : BindValue(b, "as_string")

SpecMark == Init /\ [][NextMark]_vars

\* ------------------------------------------------------------ SpecCols
\* the Oracle types of the columns of a query: NUMBER around the threshold
\* of the precision, with and without a scale, and other types
ColTypes ==
    {OraType("Number", 0, 0), OraType("Number", 1, 0), OraType("Number", 4, 0),
     OraType("Number", DPI_MAX_INT64_PRECISION - 1, 0),
     OraType("Number", DPI_MAX_INT64_PRECISION, 0),
     OraType("Number", DPI_MAX_INT64_PRECISION + 1, 0),
     OraType("Number", 4, 2), OraType("Number", 4, -2), OraType("Number", 0, -127),
     OraType("Varchar2", 3, 0), OraType("BinaryDouble", 0, 0), OraType("Timestamp", 0, 0)}

\* queries of one column and of two
ColTexts ==
    {Text("select", <<>>, <<ColumnInfo(<<"a">>, T, FALSE)>>) : T \in ColTypes}
      \cup {Text("select", <<>>, <<ColumnInfo(<<"a">>, OraType("Number", 4, 2), TRUE),
                                   ColumnInfo(<<"B">>, T, TRUE)>>) :
               T \in {OraType("Number", 4, 0), OraType("Number", DPI_MAX_INT64_PRECISION, 0)}}

NextCols ==
    \/ \E t \in ColTexts, failAt \in FailPoints(4) : Prepare(t, failAt)
    \/ \E nrows \in Rows(MaxRows) : \E failAt \in ExecFails(<<>>, <<>>, nrows) :
         Execute(<<>>, nrows, failAt)

SpecCols == Init /\ [][NextCols]_vars

\* ------------------------------------------------------------ SpecCell
\* the Oracle types a cell is initialized for
CellTypes ==
    {OraType("Varchar2", 4, 0), OraType("Raw", 4, 0), OraType("Number", 4, 0),
     OraType("Int64", 0, 0), OraType("UInt64", 0, 0), OraType("BinaryFloat", 0, 0),
     OraType("BinaryDouble", 0, 0), OraType("Timestamp", 0, 0), OraType("IntervalDS", 0, 0),
     OraType("IntervalYM", 0, 0), OraType("CLOB", 0, 0), OraType("BLOB", 0, 0),
     OraType("Boolean", 0, 0), OraType("Object", 1, 0), OraType("Object", 1, 1)}

\* integers at the edges of the integer types
EdgeInts ==
    {NumOf(0), NumOf(-129), NumOf(-128), NumOf(127), NumOf(128), NumOf(255), NumOf(256),
     NumOf(32767), NumOf(32768), NumOf(2147483647), Canon(FALSE, 1, 31), Canon(TRUE, 1, 31)}

\* floats at the edges: 127.5, -128.5, 2^31 - 128 (the f32 below 2^31), 2^31,
\* 2^63, 2^64 and -2^63
EdgeFloats ==
    {Canon(FALSE, 255, -1), Canon(TRUE, 257, -1), NumOf(127), NumOf(128), NumOf(-128),
     Canon(FALSE, 16777215, 7), Canon(FALSE, 1, 31), Canon(FALSE, 1, 63),
     Canon(FALSE, 1, 64), Canon(TRUE, 1, 63)}

\* decimal texts at the edges of i8 and u8, and texts that are no numbers
NumberWords ==
    {<<"0">>, <<"1", "2", "7">>, <<"1", "2", "8">>, <<"-", "1", "2", "8">>,
     <<"-", "1", "2", "9">>, <<"2", "5", "5">>, <<"2", "5", "6">>}

Words == NumberWords \cup {<<>>, <<"1", "x">>}

\* texts of more than two chunks of READ_CHAR_SIZE
LongWords == {<<"1", "2", "8", "0", "0">>, <<"1", "2", "8", "0", "0", "0">>}

\* the bytes of a BLOB, two digits each, up to three chunks of READ_SIZE
RawWords == {<<>>, <<"0", "1">>, <<"1", "2", "7", "0">>, <<"1", "2", "7", "0", "0", "1">>}

\* what the driver can have put in a buffer of each Native Encoding
Contents(nt) ==
    CASE nt = "Int64" -> {Payload("int", n, <<>>) : n \in EdgeInts \cup {Canon(TRUE, 1, 63)}}
      [] nt = "UInt64" ->
           {Payload("int", n, <<>>) : n \in {m \in EdgeInts : ~m.neg} \cup {Canon(FALSE, 1, 63)}}
      [] nt = "Float" ->
           {Payload("flt", n, <<>>) : n \in EdgeFloats}
             \cup {Payload("nan", NumOf(0), <<>>), Payload("inf", NumOf(0), <<>>)}
      [] nt = "Double" ->
           {Payload("flt", n, <<>>) : n \in EdgeFloats \cup {NumOf(2147483647)}}
             \cup {Payload("nan", NumOf(0), <<>>), Payload("inf", NumOf(0), <<>>)}
      [] nt = "Char" -> {StrPayload(s) : s \in Words}
      [] nt = "CLOB" -> {StrPayload(s) : s \in Words \cup LongWords}
      [] nt = "BLOB" -> {Payload("raw", NumOf(0), s) : s \in RawWords}
      [] nt = "Number" -> {StrPayload(s) : s \in NumberWords}
      [] OTHER -> {Payload(nt, NumOf(0), <<>>)}

\* a cell initialized for oratype, its buffer null or holding the payload p
CellOf(oratype, isNull, p) ==
    LET ih == init_handle(NewSqlValue, Enter(NoDriver, 0), oratype, 1)
    IN [cell |-> ih.cell,
        vars |-> [ih.H.vars EXCEPT ![ih.cell.data].isNull = isNull,
                                   ![ih.cell.data].val = p]]

\* one cell: as SqlValue::new made it, or initialized and then null or
\* filled by the driver
InitCell ==
    /\ life = "unprepared"
    /\ text = Text("none", <<>>, <<>>)
    /\ stmt = NoStatement
    /\ dpi = NoDriver
    /\ ret = Ret("none", ByPos(0), "Ok")
    /\ out = NoOut
    /\ ops = 0
    /\ \/ val = NoCell
       \/ \E oratype \in CellTypes : val = CellOf(oratype, TRUE, NoPayload)
       \/ \E oratype \in CellTypes :
            \E p \in Contents(var_create_param(oratype).native) :
               val = CellOf(oratype, FALSE, p)

\* the driver as the cell sees it
CellDriver(failAt) == Enter([NoDriver EXCEPT !.vars = val.vars], failAt)

GetFails(getter) == FailPoints(Getter(val.cell, CellDriver(0), getter).H.calls)

\* a typed getter called on the cell
Get(getter, failAt) ==
    /\ \E r \in {Getter(val.cell, CellDriver(failAt), getter)} :
       \E o \in Results(r) :
            out' = [getter |-> getter, res |-> o[1], from |-> r.from, to |-> r.to,
                    read |-> r.read, val |-> o[2], fault |-> failAt # 0]
          /\ dpi' = Leave(r.H)
    /\ UNCHANGED <<life, text, stmt, ret, val, ops>>

NextCell == \E getter \in Getters : \E failAt \in GetFails(getter) : Get(getter, failAt)

SpecCell == InitCell /\ [][NextCell]_vars

\* ------------------------------------------------------------- SpecSet
\* SqlValue::from_oratype: the cell of an object attribute, which has no
\* buffer of its own and reads and writes the dpiData of its owner
from_oratype(oratype, data) ==
    [NewSqlValue EXCEPT !.data = data, !.native_type = var_create_param(oratype).native,
                        !.oratype = oratype]

\* an attribute cell on a dpiData that the owning object holds
AttrOf(oratype) ==
    [cell |-> from_oratype(oratype, 1),
     vars |-> [NoDriver.vars EXCEPT ![1] = [refs |-> 1, isNull |-> TRUE,
                                            val |-> NoPayload, arr |-> 1]]]

\* one initialized cell, null: with a buffer of its own or without
InitSet ==
    /\ life = "unprepared"
    /\ text = Text("none", <<>>, <<>>)
    /\ stmt = NoStatement
    /\ dpi = NoDriver
    /\ ret = Ret("none", ByPos(0), "Ok")
    /\ out = NoOut
    /\ ops = 0
    /\ \E oratype \in CellTypes :
         val \in {CellOf(oratype, TRUE, NoPayload), AttrOf(oratype)}

\* the typed setters, and the getter of the same host type
OtherSetters ==
    {"set_bytes", "set_timestamp", "set_interval_ds", "set_interval_ym", "set_collection",
     "set_object", "set_bool"}

Setters == {"set_" \o T : T \in SetTypes} \cup {"set_string"} \cup OtherSetters

GetterOf(setter) == CHOOSE getter \in Getters : SubSeq(getter, 3, Len(getter)) = SubSeq(setter, 4, Len(setter))

\* integers and floats at the edges: 2^24 + 1 is the first integer that is
\* no f32, 2^63 the first u64 that is no i64
HostNumbers ==
    {NumOf(7), NumOf(-1), NumOf(-128), NumOf(255), NumOf(16777217), Canon(FALSE, 1, 63),
     Canon(TRUE, 1, 63), Canon(FALSE, 255, -1), Canon(TRUE, 257, -1)}

\* the values of each setter's host type
SetValues(setter) ==
    CASE setter \in {"set_" \o T : T \in IntTypes} ->
           {Payload("int", n, <<>>) : n \in {m \in HostNumbers : IsInteger(m) /\
               InRange(CHOOSE T \in IntTypes : setter = "set_" \o T, m)}}
      [] setter = "set_f32" ->
           {Payload("flt", n, <<>>) : n \in {m \in HostNumbers : round_to_float(m, "f32") = m}}
      [] setter = "set_f64" -> {Payload("flt", n, <<>>) : n \in HostNumbers}
      [] setter = "set_string" -> {Payload("string", NumOf(0), w) : w \in {<<"1", "2">>, <<"1", "x">>}}
      [] OTHER -> {Payload(TargetName(GetterOf(setter)), NumOf(0), <<"1", "2">>)}

\* ToSql::to_sql of the host type: the typed setter of the cell
Setter(cell, H, setter, p) ==
    IF setter = "set_string" THEN set_string(cell, H, p.s)
    ELSE IF setter \in OtherSetters
         THEN set_other(cell, H, setter, Payload(cell.native_type, p.n, p.s))
    ELSE set_int(cell, H, p)

\* the texts of the model spell the numbers below 2^31 in size
Spellable(cell, p) == cell.native_type \in {"Char", "Number"} => MagLtPow2(p.n, 31)

SetFails(setter, p) ==
    IF ops < MaxOps /\ Spellable(val.cell, p)
    THEN FailPoints(Setter(val.cell, CellDriver(0), setter, p).H.calls)
    ELSE {0}

\* the buffers after a setter: the cast of a float the integer cannot hold
\* has written one of its outcomes
Written(buffers, k) ==
    [id \in DOMAIN buffers |->
        IF buffers[id].val.k = "UBCast" THEN [buffers[id] EXCEPT !.val.k = k] ELSE buffers[id]]

\* a typed setter called on the cell
Set(setter, p, failAt) ==
    /\ Tick
    /\ Spellable(val.cell, p)
    /\ \E r \in {Setter(val.cell, CellDriver(failAt), setter, p)} :
          /\ \E k \in CastOutcomes : val' = [cell |-> r.cell, vars |-> Written(r.H.vars, k)]
          /\ \E res \in Outcomes(r.res) :
               ret' = [Ret("set", ByPos(0), res) EXCEPT !.getter = setter, !.value = p]
    /\ out' = NoOut
    /\ UNCHANGED <<life, text, stmt, dpi>>

SetNull ==
    /\ Tick
    /\ \E r \in {set_null(val.cell, CellDriver(0))} :
          /\ val' = [cell |-> r.cell, vars |-> r.H.vars]
          /\ \E res \in Outcomes(r.res) : ret' = Ret("set_null", ByPos(0), res)
    /\ out' = NoOut
    /\ UNCHANGED <<life, text, stmt, dpi>>

IsNullCall ==
    /\ \E r \in {is_null(val.cell, CellDriver(0))} :
       \E o \in Results(r) :
            out' = [getter |-> "is_null", res |-> o[1], from |-> r.from, to |-> r.to,
                    read |-> r.read, val |-> o[2], fault |-> FALSE]
    /\ UNCHANGED <<life, text, stmt, dpi, ret, val, ops>>

\* a cell is set, asked whether it is null, and read back by the getter of
\* the host type it was set from
NextSet ==
    \/ \E setter \in Setters : \E p \in SetValues(setter) :
         \E failAt \in SetFails(setter, p) : Set(setter, p, failAt)
    \/ SetNull
    \/ IsNullCall
    \/ \E failAt \in FailPoints(2) :
         ret.op = "set" /\ failAt \in GetFails(GetterOf(ret.getter))
         /\ Get(GetterOf(ret.getter), failAt)

SpecSet == InitSet /\ [][NextSet]_vars

\* ---------------------------------------------------------------- claims
\* C1: when the life of a Statement that prepare returned has ended, its
\* native handle has been released exactly once, whether or not close() was
\* called first and whatever was executed and fetched in between.
C1_ReleasedOnce == life = "dropped" => dpi.stmt.released = 1

\* the bind slot the last bind_value addressed was never given a type
NeverBound ==
    /\ ret.op = "bind_value"
    /\ ret.slot # 0
    /\ stmt.bind_values[ret.slot].oratype = NoOraType

\* C2: bind_value on a bind slot that was never bound returns
\* UninitializedBindValue for every typed getter, and reads no buffer.
C2_Uninitialized == NeverBound => ret.res = "UninitializedBindValue" /\ ~ret.read

\* C3: bind and bind_value with a position i resolve slot i - 1 exactly when
\* 1 <= i <= bind_count, and return InvalidBindIndex for every other
\* position, 0 included.
C3_Positional ==
    (ret.op \in {"bind", "bind_value"} /\ ret.idx.by = "pos") =>
        IF 1 <= ret.idx.pos /\ ret.idx.pos <= stmt.bind_count
        THEN ret.slot - 1 = ret.idx.pos - 1 /\ ret.res # "InvalidBindIndex"
        ELSE ret.slot = 0 /\ ret.res = "InvalidBindIndex"

\* the entries of the unique-name list that a spelling matches when letter
\* case is ignored
Matches(name) ==
    {i \in 1..Len(stmt.bind_names) : eq_ignore_ascii_case(stmt.bind_names[i], name)}

\* C4: bind and bind_value by name resolve the first entry of the
\* unique-name list that equals the name when letter case is ignored, so
\* two spellings that differ only in case resolve the same slot; a name that
\* matches no entry returns InvalidBindName.
C4_NameResolution ==
    (ret.op \in {"bind", "bind_value"} /\ ret.idx.by = "name") =>
        /\ IF Matches(ret.idx.name) = {}
           THEN ret.slot = 0 /\ ret.res = "InvalidBindName"
           ELSE /\ ret.slot \in Matches(ret.idx.name)
                /\ \A i \in Matches(ret.idx.name) : ret.slot <= i
                /\ ret.res # "InvalidBindName"
        /\ \A other \in Spellings :
             eq_ignore_ascii_case(other, ret.idx.name) => Slot(ByName(other)) = ret.slot

\* a lower-case spelling resolved the slot of the name the driver reports in
\* upper case, here the second name of the statement
C4_Witness ==
    /\ ret.op = "bind"
    /\ ret.idx = ByName(<<"a">>)
    /\ ret.res = "Ok"
    /\ ret.slot = 1
    /\ stmt.bind_names = <<<<"A">>, <<"B">>>>

\* the position is out of range or the name is unknown
BadIdx(b) ==
    IF b.by = "pos" THEN ~(1 <= b.pos /\ b.pos <= stmt.bind_count)
    ELSE Matches(b.name) = {}

\* C5: a bind whose position is out of range or whose name is unknown
\* returns its error, and changes no bind cell, allocates, releases and
\* attaches no buffer.
C5_ErrorBeforeMutation ==
    [][(ret'.op = "bind" /\ BadIdx(ret'.idx)) =>
          /\ ret'.res \in {"InvalidBindIndex", "InvalidBindName"}
          /\ stmt' = stmt
          /\ dpi'.vars = dpi.vars
          /\ dpi'.bnd = dpi.bnd]_vars

\* the last execute of the query went through: its result is open and every
\* column is defined with the buffer of its column cell
Executed ==
    /\ dpi.rs.active
    /\ Len(stmt.row.column_values) = Len(text.cols)
    /\ \A i \in 1..Len(text.cols) :
         dpi.def[i] # 0 /\ dpi.def[i] = stmt.row.column_values[i].handle

\* C6: after an execute whose result has N rows, the k-th fetch returns the
\* row at position k for k = 1..N, every later fetch returns NoMoreData, and
\* no fetch calls the driver's execute. dpi.rs.cursor counts the rows
\* fetched since the execute; a fetch the driver fails is no fetch of a row.
C6_Fetch ==
    [][(Executed /\ ret'.op = "fetch" /\ ret'.res # "DpiError") =>
          /\ IF dpi.rs.cursor < dpi.rs.nrows
             THEN /\ ret'.res = "Row"
                  /\ ret'.seen = dpi.rs.cursor + 1
                  /\ dpi'.rs.cursor = dpi.rs.cursor + 1
             ELSE /\ ret'.res = "NoMoreData"
                  /\ dpi'.rs.cursor = dpi.rs.cursor
          /\ dpi'.rs.nrows = dpi.rs.nrows
          /\ \A i \in 1..Len(dpi'.log) : dpi'.log[i].f # "dpiStmt_execute"]_vars

\* every row of the largest result was fetched, and the fetch after the
\* last row returned NoMoreData
C6_Witness ==
    /\ ret.op = "fetch"
    /\ ret.res = "NoMoreData"
    /\ Executed
    /\ dpi.rs.nrows = MaxRows
    /\ dpi.rs.cursor = MaxRows

IsBindCall(e) == e.f = "Statement::bind"

IsBindRet(e) == e.f = "Statement::bind returned"

\* the binds the last operation made, what each returned, and where in its
\* calls the driver's execute stands
BindCalls == SelectSeq(dpi.log, IsBindCall)

BindRets == SelectSeq(dpi.log, IsBindRet)

ExecuteCalls == {i \in 1..Len(dpi.log) : dpi.log[i].f = "dpiStmt_execute"}

\* C7: execute and execute_named bind their parameters in the given order,
\* execute to positions 1..n; the driver's execute is called once, after
\* every bind returned Ok; when the k-th bind fails its error is returned,
\* the driver's execute is not called and no later parameter is bound.
C7_BindThenExecute ==
    ret.op = "execute" =>
        LET n == Len(ret.idxs)
            k == Len(BindCalls)
        IN /\ k <= n
           /\ Len(BindRets) = k
           /\ \A j \in 1..k : /\ BindCalls[j].pos = ret.idxs[j].pos
                              /\ BindCalls[j].name = ret.idxs[j].name
           /\ \A j \in 1..k : ret.idxs[j].by = "pos" => BindCalls[j].pos = j
           /\ \A j \in 1..(k - 1) : BindRets[j].name = <<"Ok">>
           /\ IF k > 0 /\ BindRets[k].name # <<"Ok">>
              THEN /\ ExecuteCalls = {}
                   /\ ret.res \in Outcomes(BindRets[k].name[1])
              ELSE /\ k = n
                   /\ Cardinality(ExecuteCalls) = 1
                   /\ \A i \in ExecuteCalls : \A j \in 1..Len(dpi.log) :
                        (IsBindCall(dpi.log[j]) \/ IsBindRet(dpi.log[j])) => j < i

\* the second of two named parameters failed to bind after the first was
\* bound, and execute returned its error
C7_Witness ==
    /\ ret.op = "execute"
    /\ Len(ret.idxs) = 2
    /\ Len(BindRets) = 2
    /\ BindRets[1].name = <<"Ok">>
    /\ BindRets[2].name = <<"InvalidBindName">>
    /\ ret.res = "InvalidBindName"
    /\ ExecuteCalls = {}

\* a getter was called on a cell that init_handle gave a type
Called == out.getter # "" /\ val.cell.oratype # NoOraType

\* the current row of the cell is null
IsNull == val.vars[val.cell.data].isNull

\* the Native Encodings the integer getters accept
IntArms == {"Int64", "UInt64", "Float", "Double", "Char", "CLOB", "Number"}

\* the Native Encodings the called getter accepts, and the name of its target
Accepted == IF out.getter \in OtherGetters THEN Arms(out.getter) ELSE IntArms

Target ==
    IF out.getter \in OtherGetters THEN TargetName(out.getter)
    ELSE CHOOSE T \in IntTypes : out.getter = "as_" \o T

\* C8 as stated: on an initialized cell whose current row is null every
\* typed getter returns NullValue, whatever the encoding and the target.
C8_NullFirst == (Called /\ IsNull) => out.res = "NullValue"

\* C8: on an initialized cell whose current row is null a typed getter
\* returns no value and no error of a conversion or a read: it returns
\* NullValue when it accepts the cell's Native Encoding, and
\* InvalidTypeConversion when it does not.
C8_NullBeforeValue ==
    (Called /\ IsNull) =>
        /\ out.res \in {"NullValue", "InvalidTypeConversion"}
        /\ val.cell.native_type \in Accepted => out.res = "NullValue"

\* as_i64 on a null VARCHAR2 value, which it would have had to parse
C8_Witness ==
    /\ Called
    /\ IsNull
    /\ out.getter = "as_i64"
    /\ val.cell.native_type = "Char"
    /\ out.res = "NullValue"

\* C9: a typed getter on an initialized cell whose Native Encoding it does
\* not accept returns InvalidTypeConversion naming the cell's Oracle type
\* and the target type, also when the value is null; on an accepted encoding
\* with a null value it returns NullValue.
C9_ConversionFirst ==
    Called =>
        IF val.cell.native_type \notin Accepted
        THEN /\ out.res = "InvalidTypeConversion"
             /\ out.from = val.cell.oratype
             /\ out.to = Target
        ELSE /\ out.res # "InvalidTypeConversion"
             /\ IsNull => out.res = "NullValue"

\* as_bool on a null NUMBER-as-integer value
C9_Witness ==
    /\ Called
    /\ IsNull
    /\ out.getter = "as_bool"
    /\ val.cell.native_type = "Int64"
    /\ out.res = "InvalidTypeConversion"
    /\ out.to = "bool"

\* what the buffer of the cell holds
Held == val.vars[val.cell.data].val

\* the number the held value stands for, when it is one
HeldNumber == IF Held.k = "str" THEN parse_int(Held.s, "i64").val.n ELSE Held.n

IsNumber ==
    \/ Held.k \in {"int", "flt"}
    \/ Held.k = "str" /\ parse_int(Held.s, "i64").res = "Ok"

\* min_value() and max_value() of an integer type
IsMin(T, n) == IF Signed(T) THEN n = Canon(TRUE, 1, Bits(T) - 1) ELSE n.m = 0

IsMax(T, n) ==
    /\ MaxPow(T) <= 31
    /\ n = Canon(FALSE, 2 * (Pow2(MaxPow(T) - 1) - 1) + 1, 0)

\* C10: an integer getter on a numeric source encoding returns Overflow
\* naming the destination type for every source value outside [min, max] of
\* the destination type, and returns the value itself for a source value
\* equal to min or max, when no call of the driver fails.
C10_Overflow ==
    (/\ Called
     /\ out.getter \notin OtherGetters
     /\ val.cell.native_type \in IntArms
     /\ ~IsNull
     /\ ~out.fault
     /\ IsNumber \/ Held.k \in {"nan", "inf"}) =>
        IF Held.k \in {"nan", "inf"} \/ ~InRange(Target, HeldNumber)
        THEN out.res = "Overflow" /\ out.to = Target
        ELSE (IsMin(Target, HeldNumber) \/ IsMax(Target, HeldNumber)) =>
                 out.res = "Ok" /\ out.val.k = "int" /\ out.val.n = HeldNumber

\* the last setter succeeded and the getter of its host type has read the
\* cell since, no driver call of the getter failing
ReadBack ==
    /\ ret.op = "set" /\ ret.res = "Ok"
    /\ out.getter = GetterOf(ret.getter) /\ ~out.fault

\* C11: a successful set_<T>(v) followed by as_<T>() on the same cell and row
\* returns exactly v, for every encoding the setter accepts and every value v
\* of the host type.
C11_RoundTrip == ReadBack => out.res = "Ok" /\ out.val = ret.value

\* is_null has been called since the last setter, and what it returned
AskedNull == out.getter = "is_null" /\ out.res = "Ok"

SaidNull == out.val.n = NumOf(1)

\* C12: on an initialized cell is_null returns true immediately after
\* set_null and false immediately after any successful set_<T>, for every
\* setter and every encoding it accepts, the large-object setters and the
\* retained-bytes and retained-object paths of a cell without a buffer of its
\* own included.
C12_NullFlag ==
    AskedNull =>
        /\ (ret.op = "set_null" /\ ret.res = "Ok") => SaidNull
        /\ (ret.op = "set" /\ ret.res = "Ok") => ~SaidNull

\* is_null said false after a set_string that retained its bytes in a cell
\* which had been set to null before
C12_Witness ==
    /\ AskedNull /\ ~SaidNull /\ ops = 2
    /\ ret.op = "set" /\ ret.res = "Ok" /\ ret.getter = "set_string"
    /\ val.cell.handle = 0 /\ val.cell.keep_bytes # <<>>

\* the last prepare obtained a handle and failed at a later step
FailedWithHandle ==
    /\ ret.op = "prepare" /\ ret.res = "DpiError"
    /\ Len(dpi.log) > 1 /\ dpi.log[1].f = "dpiConn_prepareStmt"

\* the releases of the statement handle the last operation made
Releases == {i \in 1..Len(dpi.log) : dpi.log[i].f = "dpiStmt_release" /\ dpi.log[i].pos # 0}

\* C13: if prepare obtains a native statement handle and a later step (the
\* statement info, the bind count or the bind names) fails, the handle is
\* released exactly once before the error is returned, and no Statement is
\* produced.
C13_FailedPrepare ==
    FailedWithHandle =>
        /\ Cardinality(Releases) = 1 /\ dpi.stmt.released = 1 /\ dpi.stmt.refs = 0
        /\ life = "unprepared" /\ stmt = NoStatement

\* prepare failed reading the bind names
C13_Witness ==
    FailedWithHandle /\ dpi.log[Len(dpi.log) - 1].f = "dpiStmt_getBindNames"

\* a driver call of the last getter failed
DriverCallFailed == out.getter # "" /\ out.fault

\* C14: a core operation whose driver call failed returns that driver error
\* at that call; here for the typed getters, the large-object read path
\* included: no getter returns success, or a value, after one of its driver
\* calls failed.
C14_DriverErrorReturned == DriverCallFailed => out.res = "DpiError"

\* a value was asked of the row the last fetch returned
RowAsked == ret.op = "fetch" /\ ret.res = "Row" /\ ret.getter # ""

\* the columns (counted from 1) the index of the last Row::get stands for
Resolved ==
    IF ret.idx.by = "pos"
    THEN {i \in 1..Len(stmt.row.column_info) : i = ret.idx.pos + 1}
    ELSE {i \in 1..Len(stmt.row.column_info) :
            eq_ignore_ascii_case(stmt.row.column_info[i].name, ret.idx.name)}

\* the text of a column's data
Shown(p) == IF p.k = "str" THEN p.s ELSE display(p)

FirstResolved == CHOOSE i \in Resolved : \A j \in Resolved : i <= j

\* C15: Row.get with a position p resolves a column iff 0 <= p < column
\* count and otherwise returns InvalidColumnIndex; with a name it resolves to
\* the first column whose name equals it ignoring ASCII case and otherwise
\* returns InvalidColumnName; the value returned is read from the column
\* cell at the resolved index.
C15_RowGet ==
    RowAsked =>
        IF Resolved = {}
        THEN out.res = (IF ret.idx.by = "pos" THEN "InvalidColumnIndex"
                        ELSE "InvalidColumnName")
        ELSE /\ out.res \notin {"InvalidColumnIndex", "InvalidColumnName", "panic"}
             /\ out.from = stmt.row.column_values[FirstResolved].oratype
             /\ <<out.res, out.val>> \in
                   Results(Getter(stmt.row.column_values[FirstResolved],
                                  Enter(dpi, 0), ret.getter))
             /\ (out.res = "Ok" /\ ret.getter = "as_string"
                   /\ stmt.row.column_values[FirstResolved].handle # 0) =>
                   out.val.s = Shown(ColumnData(FirstResolved))

\* a name in another case than the columns' reads the first of two columns
\* whose names differ in case only
C15_Witness ==
    /\ RowAsked /\ ret.idx = ByName(<<"A">>) /\ Cardinality(Resolved) = 2
    /\ ret.getter = "as_i64" /\ out.res = "Ok" /\ out.val = IntPayload(7)

\* the last operation was a bind that resolved its slot
BindCalled == ret.op = "bind" /\ ret.slot # 0

\* the buffer of the slot holds the value of the last bind
ValueWritten ==
    LET cell == stmt.bind_values[ret.slot]
    IN /\ cell.handle # 0
       /\ dpi.vars[cell.handle].refs > 0
       /\ CASE ret.value.host = "OracleType" -> dpi.vars[cell.handle].isNull
            [] ret.value.host = "Duration" ->
                 /\ ~dpi.vars[cell.handle].isNull
                 /\ dpi.vars[cell.handle].val = interval_ds(ret.value)
            [] ret.value.host = "i64" ->
                 /\ ~dpi.vars[cell.handle].isNull
                 /\ dpi.vars[cell.handle].val = IntPayload(ret.value.i)
            [] ret.value.host = "str" ->
                 /\ ~dpi.vars[cell.handle].isNull
                 /\ dpi.vars[cell.handle].val = StrPayload(ret.value.s)

\* C16: binding a Duration of 1000000000 days as INTERVAL DAY TO SECOND
\* makes bind return Overflow, unless a driver call of the bind failed
\* before; bind returns the error of writing the value into the cell and
\* never success when the value was not written.
C16_BindReportsWrite ==
    BindCalled =>
        /\ (ret.value = Dur(1000000000) /\ ret.res # "DpiError") => ret.res = "Overflow"
        /\ ret.res = "Ok" => ValueWritten

\* stmt.bind(2, &Duration::days(1000000000)) on a block with two variables
C16_Witness ==
    /\ BindCalled /\ ret.value = Dur(1000000000) /\ ret.idx = ByPos(2)
    /\ text.kind = "begin" /\ ret.res = "Overflow"
    /\ stmt.bind_values[2].native_type = "IntervalDS" /\ dpi.vars[stmt.bind_values[2].handle].isNull

\* the cell an init_handle step is called on, as it was before the step
OldCell == val.cells[ret'.i]

\* the calls of one operation that release a buffer, and that allocate one
ReleaseCalls(log) == {k \in 1..Len(log) : log[k].f = "dpiVar_release"}

NewVarCalls(log) == {k \in 1..Len(log) : log[k].f = "dpiConn_newVar"}

\* the cell holds a buffer allocated for the type and array size asked for
SameRequest ==
    /\ OldCell.handle # 0
    /\ OldCell.oratype = ret'.oratype /\ OldCell.array_size = ret'.array_size

\* the array size differs, the driver type code differs, or a character or
\* raw buffer is smaller than the size asked for
OtherRequest ==
    /\ OldCell.handle # 0
    /\ \/ OldCell.array_size # ret'.array_size
       \/ var_create_param(OldCell.oratype).num # var_create_param(ret'.oratype).num
       \/ /\ var_create_param(OldCell.oratype).num \in {"VARCHAR", "RAW"}
          /\ var_create_param(ret'.oratype).size > var_create_param(OldCell.oratype).size

\* C17: init_handle on a cell that holds a buffer allocated for the
\* identical type and array_size returns false and neither releases nor
\* allocates a buffer; when the array_size differs, the driver type code
\* differs or a character or raw buffer is too small, it releases the old
\* buffer once and asks the driver for a new one, returning true with the
\* cell holding the new buffer (the driver's error when the allocation
\* fails).
C17_InitHandle ==
    [][ret'.op = "init_handle" =>
        /\ SameRequest =>
              /\ ret'.res = "false"
              /\ dpi'.log = <<>> /\ dpi'.vars = dpi.vars /\ val' = val
        /\ OtherRequest =>
              /\ Len(dpi'.log) = 2
              /\ dpi'.log[1] = [f |-> "dpiVar_release", pos |-> OldCell.handle, name |-> <<>>]
              /\ dpi'.log[2].f = "dpiConn_newVar"
              /\ ret'.res \in {"true", "DpiError"}
              /\ ret'.res = "true" =>
                    /\ val'.cells[ret'.i].handle # 0
                    /\ val'.cells[ret'.i].oratype = ret'.oratype
                    /\ val'.cells[ret'.i].array_size = ret'.array_size
                    /\ dpi'.vars[val'.cells[ret'.i].handle].arr = ret'.array_size
                    /\ \A j \in 1..Len(val.cells) :
                          j # ret'.i /\ val.cells[j].handle # 0 =>
                             val.cells[j].handle # val'.cells[ret'.i].handle]_vars

\* a cell with a buffer for one row got a buffer for the fetch array size
C17_Witness ==
    /\ ret.op = "init_handle" /\ ret.res = "true" /\ Len(dpi.log) = 2
    /\ ret.array_size = DPI_DEFAULT_FETCH_ARRAY_SIZE
    /\ val.cells[ret.i].array_size = DPI_DEFAULT_FETCH_ARRAY_SIZE

\* the cells that hold the buffer id
Holders(id) == {i \in 1..Len(val.cells) : val.cells[i].handle = id}

\* C19: every buffer is released exactly as many times as references to it
\* were acquired, one by its allocation in init_handle and one by each
\* clone of a cell that holds it: at any time the references the driver
\* counts for a buffer are those of the cells that hold it, none is released
\* more often than it was referenced, and when all cells are destroyed no
\* reference is left.
C19_References ==
    /\ \A id \in 1..MaxVars : dpi.vars[id].refs = Cardinality(Holders(id))
    /\ ret.op = "drop" => Cardinality(ReleaseCalls(dpi.log)) <= 1

\* one of two cells sharing a buffer was destroyed, the other holds it
C19_Witness ==
    /\ ret.op = "drop" /\ Len(val.cells) = 1 /\ val.cells[1].handle # 0
    /\ dpi.log = <<[f |-> "dpiVar_release", pos |-> val.cells[1].handle, name |-> <<>>]>>
    /\ dpi.vars[val.cells[1].handle].refs = 1

\* the calls of the last bind that attach a buffer to the statement, and
\* that write text or bytes into a buffer
AttachCalls ==
    {k \in 1..Len(dpi.log) : dpi.log[k].f \in {"dpiStmt_bindByPos", "dpiStmt_bindByName"}}

WriteCalls == {k \in 1..Len(dpi.log) : dpi.log[k].f = "dpiVar_setFromBytes"}

\* init_handle allocated a new buffer in the last bind
Allocated == NewVarCalls(dpi.log) # {} /\ stmt.bind_values[ret.slot].handle # 0

\* C18: in bind the buffer of the slot is attached to the native statement,
\* by position or by name as the call addresses the slot, exactly when
\* init_handle allocated a new buffer in that call, and the value is written
\* into the cell only after that; a bind that reuses the buffer makes no
\* attach call.
C18_AttachOnAllocation ==
    BindCalled =>
        /\ AttachCalls # {} <=> Allocated
        /\ Cardinality(AttachCalls) <= 1
        /\ \A k \in AttachCalls :
              /\ k - 1 \in NewVarCalls(dpi.log)
              /\ IF ret.idx.by = "pos"
                 THEN dpi.log[k].f = "dpiStmt_bindByPos" /\ dpi.log[k].pos = ret.idx.pos
                 ELSE dpi.log[k].f = "dpiStmt_bindByName" /\ dpi.log[k].name = ret.idx.name
              /\ \A w \in WriteCalls : k < w
              /\ ret.res # "Ok" =>
                    dpi.vars[stmt.bind_values[ret.slot].handle].val = NoPayload
        /\ (ret.res = "Ok" /\ Allocated) =>
              IF ret.idx.by = "pos"
              THEN dpi.bnd.pos[ret.idx.pos] = stmt.bind_values[ret.slot].handle
              ELSE dpi.bnd.name[to_uppercase(ret.idx.name)] = stmt.bind_values[ret.slot].handle

\* a second bind by name wrote into the buffer of the first and attached
\* nothing
C18_Witness ==
    /\ BindCalled /\ ops = 2 /\ ret.res = "Ok" /\ ret.idx.by = "name"
    /\ AttachCalls = {} /\ NewVarCalls(dpi.log) = {} /\ WriteCalls # {}

\* the step is an execute of a query that returned Ok
QueryExecuted ==
    ops' = ops + 1 /\ ret'.op = "execute" /\ ret'.res = "Ok" /\ text.kind = "select"

\* the column cells of the statement that hold the buffer id
ColumnHolders(S, id) ==
    {i \in 1..Len(S.row.column_values) : S.row.column_values[i].handle = id}

\* C20: bind and execute may be repeated on one prepared statement; after
\* each successful execute of a query the statement holds exactly one column
\* info and one column cell per result column that execute reported, every
\* such cell newly allocated, and every column buffer of the previous
\* execute has been released exactly once.
C20_ExecuteAgain ==
    [][QueryExecuted =>
        /\ stmt'.row.column_info = text.cols
        /\ Len(stmt'.row.column_values) = Len(text.cols)
        /\ Cardinality(NewVarCalls(dpi'.log)) = Len(text.cols)
        /\ \A i \in 1..Len(text.cols) :
              /\ stmt'.row.column_values[i].handle # 0
              /\ ColumnHolders(stmt', stmt'.row.column_values[i].handle) = {i}
              /\ dpi'.vars[stmt'.row.column_values[i].handle].refs = 1
              /\ dpi'.vars[stmt'.row.column_values[i].handle].val = NoPayload
              /\ dpi'.def[i] = stmt'.row.column_values[i].handle
        /\ \A id \in 1..MaxVars :
              /\ Cardinality({k \in ReleaseCalls(dpi'.log) : dpi'.log[k].pos = id})
                    = Cardinality(ColumnHolders(stmt, id))
              /\ Cardinality(ColumnHolders(stmt, id)) <= 1
              /\ dpi'.vars[id].refs = Cardinality(ColumnHolders(stmt', id))]_vars

\* the second execute of a query with two columns released the two buffers
\* of the first and allocated two
C20_Witness ==
    /\ ret.op = "execute" /\ ret.res = "Ok" /\ ops = 2 /\ Len(text.cols) = 2
    /\ Cardinality(ReleaseCalls(dpi.log)) = 2 /\ Cardinality(NewVarCalls(dpi.log)) = 2
    /\ Len(stmt.row.column_values) = 2

\* the last operation was an execute of a query that returned Ok
QueryReady == ret.op = "execute" /\ ret.res = "Ok" /\ text.kind = "select"

SmallInteger(oratype) ==
    /\ oratype.t = "Number" /\ oratype.s = 0
    /\ 0 < oratype.p /\ oratype.p < DPI_MAX_INT64_PRECISION

\* C22: at execute a result column is given the 64-bit-integer encoding iff
\* its type is NUMBER with scale exactly 0 and precision p with 0 < p < the
\* maximum int64 precision threshold; every other column, NUMBER with
\* precision 0, with the threshold as its precision or with a scale
\* included, gets the encoding the Type Catalog maps its type to.
C22_IntegerColumns ==
    QueryReady =>
        \A i \in 1..Len(text.cols) :
            /\ stmt.row.column_info[i].oracle_type = text.cols[i].oracle_type
            /\ stmt.row.column_values[i].native_type = "Int64"
                 <=> SmallInteger(text.cols[i].oracle_type)
            /\ ~SmallInteger(text.cols[i].oracle_type) =>
                 /\ stmt.row.column_values[i].oratype = text.cols[i].oracle_type
                 /\ stmt.row.column_values[i].native_type
                      = var_create_param(text.cols[i].oracle_type).native

\* a NUMBER(4,2) column beside a NUMBER(18) column: both numeric text
C22_Witness ==
    /\ QueryReady /\ Len(text.cols) = 2
    /\ text.cols[2].oracle_type = OraType("Number", DPI_MAX_INT64_PRECISION, 0)
    /\ stmt.row.column_values[1].native_type = "Number"
    /\ stmt.row.column_values[2].native_type = "Number"

\* the row offsets of the column cells of a statement
RowOffsets(S) ==
    [i \in 1..Len(S.row.column_values) |-> S.row.column_values[i].buffer_row_index]

\* C23: at every point after an execute of a query all column cells have
\* the same row offset, the buffer row index the driver returned for the
\* most recent successful fetch, and 0 before the first fetch: an execute
\* that succeeds leaves every offset 0, a fetch that returns a row sets
\* every offset to the index the driver hands out for that row, and a fetch
\* that returns NoMoreData or a driver error leaves the offsets as they were.
C23_RowOffsets ==
    [][/\ (ret'.op = "execute" /\ ret'.res = "Ok") =>
            \A i \in 1..Len(stmt'.row.column_values) : RowOffsets(stmt')[i] = 0
       /\ (ret'.op = "fetch" /\ ret'.res = "Row") =>
            \A i \in 1..Len(stmt'.row.column_values) :
                RowOffsets(stmt')[i] = dpi.rs.cursor % DPI_DEFAULT_FETCH_ARRAY_SIZE
       /\ (ret'.op = "fetch" /\ ret'.res # "Row") => RowOffsets(stmt') = RowOffsets(stmt)
       /\ \A i, j \in 1..Len(stmt'.row.column_values) :
            RowOffsets(stmt')[i] = RowOffsets(stmt')[j]]_vars

\* the second row of a query of two columns is fetched: both cells are at
\* offset 1
C23_Witness ==
    /\ ret.op = "fetch" /\ ret.res = "Row" /\ ret.seen = 2
    /\ Executed
    /\ RowOffsets(stmt) = <<1, 1>>

\* as_string read a large object that is not null, and did not report a
\* driver error
LobRead ==
    /\ out.getter = "as_string"
    /\ val.cell.native_type \in {"CLOB", "BLOB"}
    /\ ~val.vars[val.cell.data].isNull
    /\ out.res # "DpiError"

\* the content of the large object and the chunk reads of the last getter
LobContent == val.vars[val.cell.data].val.s

IsChunkRead(e) == e.f = "dpiLob_readBytes"

ChunkReads == SelectSeq(dpi.log, IsChunkRead)

\* the number of chunks of READ_CHAR_SIZE units in n units
Chunks(n) == (n + READ_CHAR_SIZE - 1) \div READ_CHAR_SIZE

\* the reads are ceil(S / READ_CHAR_SIZE), at the offsets 1, 1 + READ_CHAR_SIZE,
\* .., and the string returned is the content
Chunked ==
    /\ Len(ChunkReads) = Chunks(Len(LobContent))
    /\ \A k \in 1..Len(ChunkReads) : ChunkReads[k].pos = 1 + (k - 1) * READ_CHAR_SIZE
    /\ out.res = "Ok"
    /\ out.val.s = LobContent

\* C24: reading a large object of total size S as a string ends after
\* exactly ceil(S / 8192) chunk reads, issued at the 1-based offsets 1, 8193,
\* 16385, .., and returns the concatenation of the chunks in offset order,
\* which is the content of the object, also for S several times the chunk
\* size; for S = 0 it issues no read and returns the empty string.
C24_ChunkedRead == LobRead => Chunked

\* the same of the reads in which no driver call failed
LobReadUnfailed == (LobRead /\ ~out.fault) => Chunked

\* three chunks were read of a large object of three times the chunk size
LobReadThrice ==
    /\ LobRead /\ ~out.fault
    /\ Len(LobContent) = 3 * READ_CHAR_SIZE
    /\ Len(ChunkReads) = 3
    /\ ChunkReads[3].pos = 1 + 2 * READ_CHAR_SIZE

\* the buffers attached to the native statement for the marker a position
\* or a name addresses: by that position or by the marker's name
AttachedFor(bindidx) ==
    IF bindidx.by = "pos"
    THEN {dpi.bnd.pos[bindidx.pos], dpi.bnd.name[dpi.stmt.markers[bindidx.pos]]}
    ELSE {dpi.bnd.name[to_uppercase(bindidx.name)]}
           \cup {dpi.bnd.pos[i] : i \in {j \in 1..Len(dpi.stmt.markers) :
                                          dpi.stmt.markers[j] = to_uppercase(bindidx.name)}}

\* C25: after any sequence of bind calls on a statement, successful or
\* failed, whenever a bind call returns success for a slot, the buffer
\* attached to the native statement for the position or name used in that
\* call is the slot cell's current buffer.
C25_AttachedBuffer ==
    (BindCalled /\ ret.res = "Ok") =>
        /\ stmt.bind_values[ret.slot].handle # 0
        /\ stmt.bind_values[ret.slot].handle \in AttachedFor(ret.idx)

\* the statement has more bind markers than unique bind names
Repeated == life = "live" /\ stmt.bind_count > Len(stmt.bind_names)

\* C26: in a statement whose bind count exceeds its number of unique bind
\* names, a name and a position resolve to the same bind cell only if they
\* address the same bind marker, and a bind by name writes the cell of a
\* marker of that name only.
C26_SameMarker ==
    Repeated =>
        /\ \A n \in Spellings, i \in 1..stmt.bind_count :
             (Slot(ByName(n)) # 0 /\ Slot(ByName(n)) = Slot(ByPos(i)))
                => dpi.stmt.markers[i] = to_uppercase(n)
        /\ (ret.op = "bind" /\ ret.idx.by = "name" /\ ret.slot # 0)
             => dpi.stmt.markers[ret.slot] = to_uppercase(ret.idx.name)

\* C27: after any sequence of executes, including one that failed while
\* discovering the metadata of a column, allocating its buffer or defining
\* it, the column metadata array and the column cell array have the same
\* length and every column cell has a buffer and a Logical Type.
C27_ColumnArrays ==
    (life = "live" /\ ret.op = "execute") =>
        /\ Len(stmt.row.column_info) = Len(stmt.row.column_values)
        /\ \A i \in 1..Len(stmt.row.column_values) :
             /\ stmt.row.column_values[i].handle # 0
             /\ stmt.row.column_values[i].oratype # NoOraType

\* C28: when init_handle fails after it released the previous buffer, the
\* cell keeps no reference of any kind to the released buffer, so that no
\* later is_null, set_null, getter or setter on the cell reads or writes
\* memory of the released buffer: a bind cell that points at element data
\* points into the buffer it holds, and is_null on it is defined.
C28_NoStaleBuffer ==
    life = "live" =>
        \A i \in 1..Len(stmt.bind_values) :
            stmt.bind_values[i].data # 0 =>
                /\ stmt.bind_values[i].handle = stmt.bind_values[i].data
                /\ dpi.vars[stmt.bind_values[i].data].refs > 0
                /\ is_null(stmt.bind_values[i], Enter(dpi, 0)).res # "UB"

\* C29: after every successful bind(slot, value) the Logical Type of the
\* slot's cell, which oracle_type reports and the getters use, is the type
\* the value declared, also when the buffer already in the cell was reused.
C29_LogicalType ==
    (BindCalled /\ ret.res = "Ok") =>
        stmt.bind_values[ret.slot].oratype = oratype_of(ret.value)

====
